---- MODULE Spec2Model ----
(***************************************************************************)
(* zzs-data-server: the fetch-parse-merge-cache pipeline of the doctors    *)
(* endpoint.  The repository keeps several versions of the route and of    *)
(* its helpers; each specification below composes one version:             *)
(*                                                                         *)
(*   Spec           in-process cache (unnamed/part_009), tuple-style       *)
(*                  helpers (routes/v1/helpers/fetchHelpers.ts:43-166,     *)
(*                  unnamed/part_022) and the route of unnamed/part_015.   *)
(*   Spec_throwing  in-process cache (unnamed/part_009), helpers that      *)
(*                  throw (unnamed/part_011, utils/fileHelper.ts:190-218), *)
(*                  the route of unnamed/part_013 and errorHandler.        *)
(*   Spec_redis     Redis cache (routes/v1/helpers/cacheUtils.ts), the     *)
(*                  route of routes/v1/index.ts:51-123, the merge of       *)
(*                  unnamed/part_008 and errorHandler.                     *)
(*                                                                         *)
(* The other specifications apply one helper to bounded inputs:           *)
(*                                                                         *)
(*   Spec_fetchTextFile  fetchTextFile of unnamed/part_022 on a response.  *)
(*   Spec_parse          parseRawContent of unnamed/part_021:102-141 on a  *)
(*                       content, one parser event at a time.              *)
(*   Spec_stream         processStream of unnamed/part_021:22-70 on an     *)
(*                       input stream, one stream event at a time.         *)
(*   Spec_merge          mergeDoctorsAndInstitutions of unnamed/part_008   *)
(*                       and of helpers/responseUtils.ts:99-114, called    *)
(*                       again and again over the institutions map.        *)
(*   Spec_transform      the transform of doctorsMergedSchema              *)
(*                       (unnamed/part_007:61-127) on one pair.            *)
(*   Spec_generateDoctorId  generateDoctorId (unnamed/part_007:4-8) on two *)
(*                       doctors.                                          *)
(*   Spec_file           the file endpoint GET /:fileId.                   *)
(*   Spec_catchError     catchError on a settled promise.                  *)
(*   Spec_writers        setCacheWithTTL of unnamed/part_009 under two     *)
(*                       concurrent requests.                              *)
(*   Spec_upstream       fetchAndParseWithCache of                         *)
(*                       helpers/fetchHelpers.ts:55-100 while the upstream *)
(*                       is republished.                                   *)
(*   Spec_validateSearch the middleware validateSearch of the search       *)
(*                       route (routes/v1/index.ts:133-147) on one query.  *)
(***************************************************************************)
EXTENDS Integers, Sequences, FiniteSets, TLC

(***************************************************************************)
(* Bounds of the model.  MAX_CACHE_SIZE is 100 and CACHE_TTL_MS is 600000  *)
(* in the source (unnamed/part_009:6-7), CACHE_TTL_SECONDS is 600          *)
(* (helpers/cacheUtils.ts:12); they are scaled down, and time is counted   *)
(* in ticks, so that eviction and expiry happen within the bounds.         *)
(* MaxStarted, MaxStarted_throwing and MaxStarted_redis cap the number of  *)
(* requests the server receives in each specification; MaxOverwrites caps  *)
(* the keys of the store that other clients have overwritten, MaxRows the  *)
(* records of a content given to the parser on its own, MaxList the        *)
(* records of a list given to the merge, MaxWrites the cache writes of a   *)
(* request of Spec_writers.                                                *)
(***************************************************************************)
MAX_CACHE_SIZE == 2
CACHE_TTL_MS == 1
MaxTime == 2
MaxReq == 1
MaxStarted == 3
MaxStarted_throwing == 2
MaxStarted_redis == 2
CACHE_TTL_SECONDS == 1
MaxOverwrites == 1
MaxRows == 3
MaxList == 2
MaxWrites == 2

Req == 1..MaxReq

VARIABLES
  now,                \* Date.now()
  mergedDataCache,    \* Map<string, CachedData>, in insertion order
  doctorsCache,       \* Map<string, Doctor[]>, in insertion order
  institutionsCache,  \* Map<string, Institution[]>, in insertion order
  cacheExpiry,        \* Map<string, number>, shared by the three caches
  cachedInstitutionsMap,  \* module state of getInstitutionsMap
  cachedInstitutionsTs,
  req,                \* the requests: position, locals, response and trace
  started,            \* the number of requests received so far
  redisStore,         \* the Redis keyspace: key -> text and expiry time
  call                \* a helper called on its own: its input and its result

vars == <<now, mergedDataCache, doctorsCache, institutionsCache, cacheExpiry,
          cachedInstitutionsMap, cachedInstitutionsTs, req, started, redisStore,
          call>>

\* no helper is called on its own
NoCall == [op |-> "none"]

(***************************************************************************)
(* JavaScript values.  A number is named by its toString(); null and       *)
(* undefined are the strings below.                                        *)
(***************************************************************************)
null == "null"
undefined == [kind |-> "undefined"]

\* Number(text) for the timestamp texts of the model, as toString() of the result
Number(s) ==
  CASE s = "1" -> "1"
    [] s = "2" -> "2"
    [] s = "" -> "0"
    [] OTHER -> "NaN"

\* String.prototype.replace('\n', ''): removes the first newline
ReplaceNewline(s) ==
  CASE s = "1\n" -> "1"
    [] s = "2\n" -> "2"
    [] OTHER -> s

\* truthiness that lets NaN pass
Truthy_NaN(v) == v \notin {null, "0"}

\* JavaScript truthiness of a number-or-null (0, NaN and null are falsy)
Truthy(v) == v \notin {null, "NaN", "0"}

\* utils/helpers isNumber: typeof value === 'number' (NaN is a number)
isNumber(v) == v # null

(***************************************************************************)
(* The in-process TTL cache (unnamed/part_009).  A Map is the sequence of  *)
(* its entries in insertion order.                                         *)
(***************************************************************************)
Keys(cache) == {cache[i].key : i \in 1..Len(cache)}

IndexOf(cache, key) == CHOOSE i \in 1..Len(cache) : cache[i].key = key

\* Map.prototype.get
MapGet(cache, key) ==
  IF key \in Keys(cache) THEN cache[IndexOf(cache, key)].value ELSE undefined

\* Map.prototype.set: an existing key keeps its position
MapSet(cache, key, value) ==
  IF key \in Keys(cache)
    THEN [cache EXCEPT ![IndexOf(cache, key)].value = value]
    ELSE Append(cache, [key |-> key, value |-> value])

\* Map.prototype.delete
MapDelete(cache, key) ==
  SelectSeq(cache, LAMBDA e : e.key # key)

\* cacheExpiry.delete
ExpiryDelete(expiry, key) ==
  [k \in (DOMAIN expiry) \ {key} |-> expiry[k]]

\* cacheExpiry.set
ExpirySet(expiry, key, t) ==
  [k \in (DOMAIN expiry) \cup {key} |-> IF k = key THEN t ELSE expiry[k]]

\* setCacheWithTTL evicting the newest key instead of the oldest
setCacheWithTTL_newest(cache, expiry, key, value, t) ==
  LET c1 == MapSet(cache, key, value)
      e1 == ExpirySet(expiry, key, t + CACHE_TTL_MS)
  IN IF Len(c1) > MAX_CACHE_SIZE
       THEN LET newestKey == c1[Len(c1)].key
            IN [cache |-> MapDelete(c1, newestKey),
                expiry |-> ExpiryDelete(e1, newestKey)]
       ELSE [cache |-> c1, expiry |-> e1]

\* setCacheWithTTL without the size limit
setCacheWithTTL_unbounded(cache, expiry, key, value, t) ==
  [cache |-> MapSet(cache, key, value),
   expiry |-> ExpirySet(expiry, key, t + CACHE_TTL_MS)]

\* setCacheWithTTL(cache, key, value) at time t; yields the cache and cacheExpiry
setCacheWithTTL(cache, expiry, key, value, t) ==
  LET c1 == MapSet(cache, key, value)
      e1 == ExpirySet(expiry, key, t + CACHE_TTL_MS)
  IN IF Len(c1) > MAX_CACHE_SIZE
       THEN LET oldestKey == c1[1].key
            IN [cache |-> MapDelete(c1, oldestKey),
                expiry |-> ExpiryDelete(e1, oldestKey)]
       ELSE [cache |-> c1, expiry |-> e1]

\* isCachedData: an object with 'timestamps', 'meta' and 'data'
RequiredProps == {"timestamps", "meta", "data"}
isCachedData(v) ==
  /\ v.kind \in {"object", "array"}
  /\ RequiredProps \subseteq v.props

\* getCacheWithTTL(cache, key) at time t; yields the cache, cacheExpiry and result
getCacheWithTTL(cache, expiry, key, t) ==
  IF key \in DOMAIN expiry /\ expiry[key] # 0 /\ expiry[key] < t
    THEN [cache |-> MapDelete(cache, key),
          expiry |-> ExpiryDelete(expiry, key),
          result |-> undefined]
    ELSE LET cachedData == MapGet(cache, key)
         IN IF cachedData = undefined \/ ~isCachedData(cachedData)
              THEN [cache |-> cache, expiry |-> expiry, result |-> undefined]
              ELSE [cache |-> cache, expiry |-> expiry, result |-> cachedData]

(***************************************************************************)
(* The upstream over HTTP.  A response is what fetch(url) settles to: the  *)
(* promise may reject (network error), and reading the body may fail.      *)
(***************************************************************************)
HttpResponse(settled, ok, ctype, clen, readable, body) ==
  [settled |-> settled, ok |-> ok, statusText |-> IF ok THEN "OK" ELSE "Not Found",
   ctype |-> ctype, clen |-> clen, readable |-> readable, body |-> body]

\* contentType.includes('text/plain'), for the content types of the model
IncludesTextPlain(ctype) == ctype \in {"text/plain", "text/plain; charset=utf-8"}

\* one response per way fetchTextFile can go, and a good one per body
Responses(bodies) ==
  LET b == CHOOSE x \in bodies : TRUE
  IN {HttpResponse("rejected", FALSE, "none", FALSE, FALSE, b),
      HttpResponse("fulfilled", FALSE, "text/plain", TRUE, TRUE, b),
      HttpResponse("fulfilled", TRUE, "none", TRUE, TRUE, b),
      HttpResponse("fulfilled", TRUE, "text/html", TRUE, TRUE, b),
      HttpResponse("fulfilled", TRUE, "text/plain", FALSE, TRUE, b),
      HttpResponse("fulfilled", TRUE, "text/plain", TRUE, FALSE, b),
      HttpResponse("fulfilled", TRUE, "text/plain; charset=utf-8", TRUE, TRUE, b)}
     \cup {HttpResponse("fulfilled", TRUE, "text/plain", TRUE, TRUE, x) : x \in bodies}

\* a settled promise of a [error, value] tuple
Rejected(v0) == [tag |-> "rejected", err |-> "rejected", val |-> v0]
Failure(msg, v0) == [tag |-> "err", err |-> msg, val |-> v0]
Success(v) == [tag |-> "ok", err |-> "", val |-> v]

\* fetchTextFile without the content-length check
fetchTextFile_nolength(resp, v0) ==
  IF resp.settled = "rejected" THEN Rejected(v0)
  ELSE IF ~resp.ok THEN Failure("Failed to fetch file: " \o resp.statusText, v0)
  ELSE IF ~IncludesTextPlain(resp.ctype) THEN Failure("Invalid content type", v0)
  ELSE IF ~resp.readable THEN Rejected(v0)
  ELSE Success(resp.body)

\* fetchTextFile(url), given what fetch(url) settles to; v0 stands for no value
fetchTextFile(resp, v0) ==
  IF resp.settled = "rejected" THEN Rejected(v0)
  ELSE IF ~resp.ok THEN Failure("Failed to fetch file: " \o resp.statusText, v0)
  ELSE IF ~IncludesTextPlain(resp.ctype) THEN Failure("Invalid content type", v0)
  ELSE IF ~resp.clen THEN Failure("Content length is missing", v0)
  ELSE IF ~resp.readable THEN Rejected(v0)
  ELSE Success(resp.body)

\* the texts the two timestamp files may hold
TsBodies == {"", "abc", "1\n", "2\n"}
TsResponses == Responses(TsBodies)

NoTs == [doctorsTs |-> null, institutionsTs |-> null]

\* createTimestampError: the message for the failed legs, "" for none
createTimestampError(doctorsError, institutionsError) ==
  IF doctorsError /\ institutionsError THEN "Failed to fetch timestamps"
  ELSE IF doctorsError THEN "Failed to fetch doctors timestamp"
  ELSE IF institutionsError THEN "Failed to fetch institutions timestamp"
  ELSE ""

\* fetchTimestamps(), given what the two fetches settle to
fetchTimestamps(dResp, iResp) ==
  LET doctorsTsResult == fetchTextFile(dResp, "")
      institutionsTsResult == fetchTextFile(iResp, "")
  IN IF doctorsTsResult.tag = "rejected" \/ institutionsTsResult.tag = "rejected"
       THEN Rejected(NoTs)
     ELSE
       LET error == createTimestampError(doctorsTsResult.tag = "err",
                                         institutionsTsResult.tag = "err")
           doctorsTsRaw == doctorsTsResult.val
           institutionsTsRaw == institutionsTsResult.val
           doctorsTs == IF doctorsTsRaw # ""
                          THEN Number(ReplaceNewline(doctorsTsRaw)) ELSE null
           institutionsTs == IF institutionsTsRaw # ""
                               THEN Number(ReplaceNewline(institutionsTsRaw)) ELSE null
       IN IF error # "" THEN Failure(error, NoTs)
          ELSE IF ~isNumber(doctorsTs) \/ ~isNumber(institutionsTs)
            THEN Failure("Invalid timestamp format", NoTs)
          ELSE Success([doctorsTs |-> doctorsTs, institutionsTs |-> institutionsTs])

(***************************************************************************)
(* The datasets.  A CSV text is the sequence of its records, the header    *)
(* first; <<>> is the empty string.  A record has a column count, may or   *)
(* may not satisfy the row schema, and names an institution.               *)
(***************************************************************************)
Row(cols, ok, id) == [cols |-> cols, ok |-> ok, id_inst |-> id]
Header == Row(2, TRUE, "header")

DoctorsBodies ==
  {<<>>,
   <<Header, Row(2, TRUE, "a"), Row(2, FALSE, "a"), Row(2, TRUE, "b")>>,
   <<Header, Row(1, TRUE, "a")>>}
InstitutionsBodies ==
  {<<>>,
   <<Header, Row(2, TRUE, "a")>>,
   <<Header, Row(1, TRUE, "a")>>}
DoctorsResponses == Responses(DoctorsBodies)
InstitutionsResponses == Responses(InstitutionsBodies)

\* the rows the parser's 'data' handler keeps: those that pass zodSchema.safeParse
RECURSIVE ValidRows(_)
ValidRows(rows) ==
  IF rows = <<>> THEN <<>>
  ELSE IF Head(rows).ok
    THEN <<[id_inst |-> Head(rows).id_inst]>> \o ValidRows(Tail(rows))
    ELSE ValidRows(Tail(rows))

NoParse == [data |-> <<>>,
            meta |-> [totalRows |-> 0, validRows |-> 0, invalidRows |-> 0,
                      allValid |-> TRUE]]

\* parseRawContent(content, 'csv', schema): csv-parse with columns: true fails
\* on a record whose length differs from the header's
parseRawContent(content) ==
  LET rows == IF content = <<>> THEN <<>> ELSE Tail(content)
      valid == ValidRows(rows)
  IN IF \E k \in 1..Len(rows) : rows[k].cols # Head(content).cols
       THEN Failure("Invalid Record Length", NoParse)
       ELSE Success([data |-> valid,
                     meta |-> [totalRows |-> Len(rows),
                               validRows |-> Len(valid),
                               invalidRows |-> Len(rows) - Len(valid),
                               allValid |-> Len(rows) - Len(valid) = 0]])

(***************************************************************************)
(* Cached values and the merge.                                            *)
(***************************************************************************)
NoMeta == [timestamps |-> NoTs, doctorsCount |-> 0, institutionsCount |-> 0,
           mergedCount |-> 0, executionTime |-> 0]

\* a parsed array as stored in a per-dataset cache; storedAt records the time
\* of the setCacheWithTTL that stored it
ArrayValue(data, t) ==
  [kind |-> "array", props |-> {}, data |-> data, meta |-> NoMeta, storedAt |-> t]

\* an object with the given own properties
ObjectValue(props, data, meta, t) ==
  [kind |-> "object", props |-> props, data |-> data, meta |-> meta, storedAt |-> t]

NoMap == [built |-> FALSE, ids |-> {}]

\* a === b on numbers named by their toString(): NaN equals nothing
StrictEquals(a, b) == a = b /\ a # "NaN"

\* getInstitutionsMap(institutions, institutionsTs): the map is rebuilt only
\* when the timestamp differs from the one of the map kept in the module
getInstitutionsMap(cachedMap, cachedTs, institutions, institutionsTs) ==
  IF cachedMap.built /\ StrictEquals(cachedTs, institutionsTs)
    THEN [map |-> cachedMap, cachedMap |-> cachedMap, cachedTs |-> cachedTs]
    ELSE LET built == [built |-> TRUE,
                       ids |-> {institutions[k].id_inst : k \in 1..Len(institutions)}]
         IN [map |-> built, cachedMap |-> built, cachedTs |-> institutionsTs]

\* mergeDoctorsAndInstitutions of helpers/mergeHelper.ts: one record per doctor,
\* institution null when the map has none
mergeDoctorsAndInstitutions(cachedMap, cachedTs, doctors, institutions, institutionsTs) ==
  LET im == getInstitutionsMap(cachedMap, cachedTs, institutions, institutionsTs)
  IN [data |-> [k \in 1..Len(doctors) |->
                  [id_inst |-> doctors[k].id_inst,
                   institution |-> IF doctors[k].id_inst \in im.map.ids
                                     THEN doctors[k].id_inst ELSE null]],
      cachedMap |-> im.cachedMap,
      cachedTs |-> im.cachedTs]

(***************************************************************************)
(* Responses to the client (helpers/responseUtils.ts).  status 0: no       *)
(* response was sent; executionTime -1: the response carries none.         *)
(***************************************************************************)
NoResponse ==
  [status |-> 0, success |-> FALSE, error |-> "", data |-> <<>>,
   cacheHit |-> "absent", executionTime |-> -1]

\* sendErrorResponse(res, status, message, {timestamps, cacheHit: false, executionTime})
sendErrorResponse(status, message, executionTime) ==
  [status |-> status, success |-> FALSE, error |-> message, data |-> <<>>,
   cacheHit |-> "false", executionTime |-> executionTime]

\* sendSuccessResponse(res, {data}, {...meta, cacheHit, executionTime})
sendSuccessResponse(data, cacheHit, executionTime) ==
  [status |-> 200, success |-> TRUE, error |-> "", data |-> data,
   cacheHit |-> cacheHit, executionTime |-> executionTime]

\* calculateExecutionTime(startTime) at time t
calculateExecutionTime(startTime, t) == t - startTime

(***************************************************************************)
(* A request.  look records what each getCacheWithTTL of the request       *)
(* observed, legs what the upstream answered, acts what the request did.   *)
(***************************************************************************)
NoLook == [key |-> "", at |-> -1, had |-> FALSE, storedAt |-> -1, props |-> {},
           hit |-> FALSE, same |-> FALSE, kept |-> FALSE, keptExpiry |-> FALSE]

\* the record of one getCacheWithTTL(cache, key) at time t that yielded g
Look(cache, key, t, g) ==
  LET had == key \in Keys(cache)
  IN [key |-> key, at |-> t, had |-> had,
      storedAt |-> IF had THEN MapGet(cache, key).storedAt ELSE -1,
      props |-> IF had THEN MapGet(cache, key).props ELSE {},
      hit |-> g.result # undefined,
      same |-> had /\ g.result = MapGet(cache, key),
      kept |-> key \in Keys(g.cache),
      keptExpiry |-> key \in DOMAIN g.expiry]

NoResult == Failure("", <<>>)

IdleRequest ==
  [pc |-> "idle", startTime |-> 0, tsResult |-> Failure("", NoTs),
   ts |-> NoTs, cacheKey |-> "",
   rawContent |-> <<>>, doctors |-> NoResult, institutions |-> NoResult,
   resp |-> NoResponse,
   look |-> [m |-> NoLook, d |-> NoLook, i |-> NoLook],
   legs |-> [dTs |-> "", iTs |-> "", d |-> "", i |-> ""],
   acts |-> {}]

\* what a timestamp fetch met, in the words of the error taxonomy
TsLeg(resp) ==
  IF resp.settled = "rejected" THEN "rejected"
  ELSE IF ~resp.ok \/ ~IncludesTextPlain(resp.ctype) \/ ~resp.clen THEN "fetchFailure"
  ELSE IF ~resp.readable THEN "rejected"
  ELSE IF resp.body = "" THEN "missing"
  ELSE IF resp.body \in {"1\n", "2\n"} THEN "number"
  ELSE "unparsable"

\* what a dataset fetch met
DatasetLeg(resp) ==
  IF resp.settled = "rejected" THEN "rejected"
  ELSE IF ~resp.ok \/ ~IncludesTextPlain(resp.ctype) \/ ~resp.clen THEN "fetchFailure"
  ELSE IF ~resp.readable THEN "rejected"
  ELSE IF resp.body = <<>> THEN "empty"
  ELSE IF \E k \in 2..Len(resp.body) : resp.body[k].cols # resp.body[1].cols
    THEN "structural"
  ELSE "ok"

\* the module state a request step works on, and the request itself
Ctx(r) ==
  [m |-> mergedDataCache, d |-> doctorsCache, i |-> institutionsCache,
   e |-> cacheExpiry, cim |-> cachedInstitutionsMap, cits |-> cachedInstitutionsTs,
   rq |-> req[r]]

Apply(ctx, r) ==
  /\ mergedDataCache' = ctx.m
  /\ doctorsCache' = ctx.d
  /\ institutionsCache' = ctx.i
  /\ cacheExpiry' = ctx.e
  /\ cachedInstitutionsMap' = ctx.cim
  /\ cachedInstitutionsTs' = ctx.cits
  /\ req' = [req EXCEPT ![r] = ctx.rq]

\* the keys a set dropped from the cache
Evicted(before, after) == Keys(before) \ Keys(after)

(***************************************************************************)
(* The route of unnamed/part_015 with fetchAndParseWithCache of            *)
(* helpers/fetchHelpers.ts:55-100.  A step runs from one await on the      *)
(* network or the parser to the next; the operators below are the          *)
(* synchronous stretches, from the last one backwards.                     *)
(***************************************************************************)

\* the end of the route, with the merged result stored before the failure
\* check
Finish_eager(ctx, t) ==
  LET rq == ctx.rq
      executionTime == calculateExecutionTime(rq.startTime, t)
      mg == mergeDoctorsAndInstitutions(ctx.cim, ctx.cits, rq.doctors.val,
                                        rq.institutions.val, rq.ts.institutionsTs)
      responseData ==
        ObjectValue({"data", "meta"}, mg.data,
                    [timestamps |-> rq.ts,
                     doctorsCount |-> Len(rq.doctors.val),
                     institutionsCount |-> Len(rq.institutions.val),
                     mergedCount |-> Len(mg.data),
                     executionTime |-> executionTime], t)
      st == setCacheWithTTL(ctx.m, ctx.e, rq.cacheKey, responseData, t)
  IN IF rq.doctors.tag # "ok" \/ rq.institutions.tag # "ok"
       THEN [ctx EXCEPT !.m = st.cache, !.e = st.expiry,
                        !.rq.pc = "done",
                        !.rq.resp = sendErrorResponse(500,
                                      "Failed to fetch or parse data", executionTime)]
       ELSE [ctx EXCEPT !.m = st.cache, !.e = st.expiry,
                        !.cim = mg.cachedMap, !.cits = mg.cachedTs,
                        !.rq.pc = "done",
                        !.rq.acts = @ \cup {"merge", "mWrite"}
                                      \cup (IF Evicted(ctx.m, st.cache) # {}
                                              THEN {"mEvict"} ELSE {}),
                        !.rq.resp = sendSuccessResponse(mg.data, "false", executionTime)]

\* part_015:105-155: the failure check, the merge, the cache write, the response
Finish(ctx, t) ==
  LET rq == ctx.rq
      executionTime == calculateExecutionTime(rq.startTime, t)
  IN IF rq.doctors.tag # "ok" \/ rq.institutions.tag # "ok"
       THEN [ctx EXCEPT !.rq.pc = "done",
                        !.rq.resp = sendErrorResponse(500,
                                      "Failed to fetch or parse data", executionTime)]
       ELSE
         LET mg == mergeDoctorsAndInstitutions(ctx.cim, ctx.cits, rq.doctors.val,
                                               rq.institutions.val, rq.ts.institutionsTs)
             responseData ==
               ObjectValue({"data", "meta"}, mg.data,
                           [timestamps |-> rq.ts,
                            doctorsCount |-> Len(rq.doctors.val),
                            institutionsCount |-> Len(rq.institutions.val),
                            mergedCount |-> Len(mg.data),
                            executionTime |-> executionTime], t)
             st == setCacheWithTTL(ctx.m, ctx.e, rq.cacheKey, responseData, t)
         IN [ctx EXCEPT !.m = st.cache, !.e = st.expiry,
                        !.cim = mg.cachedMap, !.cits = mg.cachedTs,
                        !.rq.pc = "done",
                        !.rq.acts = @ \cup {"merge", "mWrite"}
                                      \cup (IF Evicted(ctx.m, st.cache) # {}
                                              THEN {"mEvict"} ELSE {}),
                        !.rq.resp = sendSuccessResponse(mg.data, "false", executionTime)]

\* fetchHelpers.ts:61-65 for the institutions: the cache lookup, and the remote
\* fetch on a miss
EnterInstitutions(ctx, t) ==
  LET key == ctx.rq.ts.institutionsTs
      g == getCacheWithTTL(ctx.i, ctx.e, key, t)
      c1 == [ctx EXCEPT !.i = g.cache, !.e = g.expiry,
                        !.rq.look.i = Look(ctx.i, key, t, g)]
  IN IF g.result # undefined
       THEN Finish([c1 EXCEPT !.rq.institutions = Success(g.result.data)], t)
       ELSE [c1 EXCEPT !.rq.pc = "iFetch", !.rq.acts = @ \cup {"iFetch"}]

\* fetchHelpers.ts:61-65 for the doctors
EnterDoctors(ctx, t) ==
  LET key == ctx.rq.ts.doctorsTs
      g == getCacheWithTTL(ctx.d, ctx.e, key, t)
      c1 == [ctx EXCEPT !.d = g.cache, !.e = g.expiry,
                        !.rq.look.d = Look(ctx.d, key, t, g)]
  IN IF g.result # undefined
       THEN EnterInstitutions([c1 EXCEPT !.rq.doctors = Success(g.result.data)], t)
       ELSE [c1 EXCEPT !.rq.pc = "dFetch", !.rq.acts = @ \cup {"dFetch"}]

\* part_015:56-89: the merged-cache lookup under the key of the timestamp pair
CheckMergedCache(ctx, t) ==
  LET rq == ctx.rq
      cacheKey == rq.ts.doctorsTs \o "-" \o rq.ts.institutionsTs
      g == getCacheWithTTL(ctx.m, ctx.e, cacheKey, t)
      c1 == [ctx EXCEPT !.m = g.cache, !.e = g.expiry, !.rq.cacheKey = cacheKey,
                        !.rq.look.m = Look(ctx.m, cacheKey, t, g)]
  IN IF g.result # undefined
       THEN IF ~isCachedData(g.result)
              THEN EnterDoctors([c1 EXCEPT !.m = MapDelete(c1.m, cacheKey)], t)
              ELSE [c1 EXCEPT !.rq.pc = "done",
                              !.rq.resp = sendSuccessResponse(g.result.data, "true",
                                            calculateExecutionTime(rq.startTime, t))]
       ELSE EnterDoctors(c1, t)

\* a request arrives: part_015:43
Start(r) ==
  /\ req[r].pc \in {"idle", "done", "rejected"}
  /\ started < MaxStarted
  /\ started' = started + 1
  /\ req' = [req EXCEPT ![r] = [IdleRequest EXCEPT !.pc = "ts", !.startTime = now]]
  /\ UNCHANGED <<call, now, mergedDataCache, doctorsCache, institutionsCache, cacheExpiry,
                 cachedInstitutionsMap, cachedInstitutionsTs, redisStore>>

\* part_015:45-54 and on: fetchTimestamps settles
Timestamps(r) ==
  /\ req[r].pc = "ts"
  /\ \E dResp \in TsResponses, iResp \in TsResponses :
       LET tsr == fetchTimestamps(dResp, iResp)
           c0 == [Ctx(r) EXCEPT !.rq.legs.dTs = TsLeg(dResp),
                                !.rq.legs.iTs = TsLeg(iResp),
                                !.rq.tsResult = tsr]
       IN IF tsr.tag = "rejected"
            THEN Apply([c0 EXCEPT !.rq.pc = "rejected"], r)
          ELSE IF tsr.tag = "err" \/ ~Truthy(tsr.val.doctorsTs)
                                  \/ ~Truthy(tsr.val.institutionsTs)
            THEN Apply([c0 EXCEPT !.rq.pc = "done",
                          !.rq.resp = sendErrorResponse(500, "Failed to fetch timestamps",
                                        calculateExecutionTime(req[r].startTime, now))], r)
          ELSE Apply(CheckMergedCache([c0 EXCEPT !.rq.ts = tsr.val], now), r)
  /\ UNCHANGED <<call, now, started, redisStore>>

\* the doctors fetch settles, with an empty text handed to the parser
DoctorsFetched_parseEmpty(r) ==
  /\ req[r].pc = "dFetch"
  /\ \E resp \in DoctorsResponses :
       LET fr == fetchTextFile(resp, <<>>)
           c0 == [Ctx(r) EXCEPT !.rq.legs.d = DatasetLeg(resp)]
       IN IF fr.tag = "rejected"
            THEN Apply([c0 EXCEPT !.rq.pc = "rejected"], r)
          ELSE IF fr.tag = "err"
            THEN Apply(EnterInstitutions([c0 EXCEPT !.rq.doctors = fr], now), r)
          ELSE Apply([c0 EXCEPT !.rq.pc = "dParse", !.rq.rawContent = fr.val,
                                !.rq.acts = @ \cup {"dParse"}], r)
  /\ UNCHANGED <<call, now, started, redisStore>>

\* fetchHelpers.ts:67-80: the doctors fetch settles
DoctorsFetched(r) ==
  /\ req[r].pc = "dFetch"
  /\ \E resp \in DoctorsResponses :
       LET fr == fetchTextFile(resp, <<>>)
           c0 == [Ctx(r) EXCEPT !.rq.legs.d = DatasetLeg(resp)]
       IN IF fr.tag = "rejected"
            THEN Apply([c0 EXCEPT !.rq.pc = "rejected"], r)
          ELSE IF fr.tag = "err"
            THEN Apply(EnterInstitutions([c0 EXCEPT !.rq.doctors = fr], now), r)
          ELSE IF fr.val = <<>>
            THEN Apply(EnterInstitutions(
                         [c0 EXCEPT !.rq.doctors = Failure("Empty file", <<>>)], now), r)
          ELSE Apply([c0 EXCEPT !.rq.pc = "dParse", !.rq.rawContent = fr.val,
                                !.rq.acts = @ \cup {"dParse"}], r)
  /\ UNCHANGED <<call, now, started, redisStore>>

\* the doctors parse settles, with the cache written before the parse error
\* is looked at
DoctorsParsed_eager(r) ==
  /\ req[r].pc = "dParse"
  /\ LET pr == parseRawContent(req[r].rawContent)
          c0 == [Ctx(r) EXCEPT !.rq.rawContent = <<>>]
          key == req[r].ts.doctorsTs
          st == setCacheWithTTL(c0.d, c0.e, key, ArrayValue(pr.val.data, now), now)
     IN IF pr.tag = "err"
          THEN Apply(EnterInstitutions(
                       [c0 EXCEPT !.d = st.cache, !.e = st.expiry,
                                  !.rq.doctors = Failure(pr.err, <<>>)], now), r)
          ELSE Apply(EnterInstitutions(
                    [c0 EXCEPT !.d = st.cache, !.e = st.expiry,
                               !.rq.doctors = Success(pr.val.data),
                               !.rq.acts = @ \cup {"dWrite"}
                                 \cup (IF Evicted(c0.d, st.cache) # {}
                                         THEN {"dEvict"} ELSE {})], now), r)
  /\ UNCHANGED <<call, now, started, redisStore>>

\* fetchHelpers.ts:82-99: the doctors parse settles
DoctorsParsed(r) ==
  /\ req[r].pc = "dParse"
  /\ LET pr == parseRawContent(req[r].rawContent)
          c0 == [Ctx(r) EXCEPT !.rq.rawContent = <<>>]
     IN IF pr.tag = "err"
          THEN Apply(EnterInstitutions(
                       [c0 EXCEPT !.rq.doctors = Failure(pr.err, <<>>)], now), r)
          ELSE LET key == req[r].ts.doctorsTs
                   st == setCacheWithTTL(c0.d, c0.e, key,
                                         ArrayValue(pr.val.data, now), now)
               IN Apply(EnterInstitutions(
                    [c0 EXCEPT !.d = st.cache, !.e = st.expiry,
                               !.rq.doctors = Success(pr.val.data),
                               !.rq.acts = @ \cup {"dWrite"}
                                 \cup (IF Evicted(c0.d, st.cache) # {}
                                         THEN {"dEvict"} ELSE {})], now), r)
  /\ UNCHANGED <<call, now, started, redisStore>>

\* fetchHelpers.ts:67-80: the institutions fetch settles
InstitutionsFetched(r) ==
  /\ req[r].pc = "iFetch"
  /\ \E resp \in InstitutionsResponses :
       LET fr == fetchTextFile(resp, <<>>)
           c0 == [Ctx(r) EXCEPT !.rq.legs.i = DatasetLeg(resp)]
       IN IF fr.tag = "rejected"
            THEN Apply([c0 EXCEPT !.rq.pc = "rejected"], r)
          ELSE IF fr.tag = "err"
            THEN Apply(Finish([c0 EXCEPT !.rq.institutions = fr], now), r)
          ELSE IF fr.val = <<>>
            THEN Apply(Finish(
                         [c0 EXCEPT !.rq.institutions = Failure("Empty file", <<>>)], now), r)
          ELSE Apply([c0 EXCEPT !.rq.pc = "iParse", !.rq.rawContent = fr.val,
                                !.rq.acts = @ \cup {"iParse"}], r)
  /\ UNCHANGED <<call, now, started, redisStore>>

\* fetchHelpers.ts:82-99: the institutions parse settles
InstitutionsParsed(r) ==
  /\ req[r].pc = "iParse"
  /\ LET pr == parseRawContent(req[r].rawContent)
          c0 == [Ctx(r) EXCEPT !.rq.rawContent = <<>>]
     IN IF pr.tag = "err"
          THEN Apply(Finish([c0 EXCEPT !.rq.institutions = Failure(pr.err, <<>>)], now), r)
          ELSE LET key == req[r].ts.institutionsTs
                   st == setCacheWithTTL(c0.i, c0.e, key,
                                         ArrayValue(pr.val.data, now), now)
               IN Apply(Finish(
                    [c0 EXCEPT !.i = st.cache, !.e = st.expiry,
                               !.rq.institutions = Success(pr.val.data),
                               !.rq.acts = @ \cup {"iWrite"}
                                 \cup (IF Evicted(c0.i, st.cache) # {}
                                         THEN {"iEvict"} ELSE {})], now), r)
  /\ UNCHANGED <<call, now, started, redisStore>>

\* the clock advances; Redis drops the keys whose time to live has run out
Tick ==
  /\ now < MaxTime
  /\ now' = now + 1
  /\ UNCHANGED <<call, mergedDataCache, doctorsCache, institutionsCache, cacheExpiry,
                 cachedInstitutionsMap, cachedInstitutionsTs, req, started>>
  /\ redisStore' = [k \in {x \in DOMAIN redisStore : redisStore[x].expireAt > now'}
                      |-> redisStore[k]]

Init ==
  /\ now = 0
  /\ call = NoCall
  /\ mergedDataCache = <<>>
  /\ doctorsCache = <<>>
  /\ institutionsCache = <<>>
  /\ cacheExpiry = <<>>
  /\ cachedInstitutionsMap = NoMap
  /\ cachedInstitutionsTs = null
  /\ req = [r \in Req |-> IdleRequest]
  /\ started = 0
  /\ redisStore = <<>>

Next ==
  \/ Tick
  \/ \E r \in Req : Start(r)
  \/ \E r \in Req : Timestamps(r)
  \/ \E r \in Req : DoctorsFetched(r)
  \/ \E r \in Req : DoctorsParsed(r)
  \/ \E r \in Req : InstitutionsFetched(r)
  \/ \E r \in Req : InstitutionsParsed(r)

Spec == Init /\ [][Next]_vars

(***************************************************************************)
(* The route of unnamed/part_013 with the helpers of unnamed/part_011 that *)
(* throw, fetchTextFile of utils/fileHelper.ts:190-218 and the error       *)
(* handler of middleware/errorHandler.ts.  The two dataset resolutions run *)
(* concurrently under Promise.all; a resolution still in flight when the   *)
(* request has been answered runs to its end.                              *)
(***************************************************************************)

\* fetchTextFile(url) of utils/fileHelper.ts:190-218: every failure is thrown
fetchTextFile_throwing(resp, v0) ==
  IF resp.settled = "rejected" THEN Failure("fetch failed", v0)
  ELSE IF ~resp.ok THEN Failure("Failed to fetch file", v0)
  ELSE IF ~IncludesTextPlain(resp.ctype) THEN Failure("Invalid content type", v0)
  ELSE IF ~resp.clen THEN Failure("Content length is missing", v0)
  ELSE IF ~resp.readable THEN Failure("Failed to read content", v0)
  ELSE Success(resp.body)

\* fetchTimestamps() of part_011:57-86; tag "err" is a thrown error
fetchTimestamps_throwing(dResp, iResp) ==
  LET doctorsTsRaw == fetchTextFile_throwing(dResp, "")
      institutionsTsRaw == fetchTextFile_throwing(iResp, "")
  IN IF doctorsTsRaw.tag = "err" THEN Failure(doctorsTsRaw.err, NoTs)
     ELSE IF institutionsTsRaw.tag = "err" THEN Failure(institutionsTsRaw.err, NoTs)
     ELSE
       LET doctorsTs == IF doctorsTsRaw.val # ""
                          THEN Number(ReplaceNewline(doctorsTsRaw.val)) ELSE null
           institutionsTs == IF institutionsTsRaw.val # ""
                               THEN Number(ReplaceNewline(institutionsTsRaw.val))
                               ELSE null
       IN IF ~isNumber(doctorsTs) \/ ~isNumber(institutionsTs)
            THEN Failure("Invalid timestamp format", NoTs)
            ELSE Success([doctorsTs |-> doctorsTs, institutionsTs |-> institutionsTs])

\* errorHandler: the response to an error passed to next()
errorHandler ==
  [status |-> 500, success |-> FALSE, error |-> "Something went wrong.",
   data |-> <<>>, cacheHit |-> "absent", executionTime |-> -1]

\* sendSuccess(res, data, meta, startTime) of helpers/responseUtils.ts:45-59
sendSuccess(data, cacheHit, startTime, t) ==
  sendSuccessResponse(data, cacheHit, calculateExecutionTime(startTime, t))

\* a request of the part_013 route: dpc and ipc are the positions of the two
\* dataset resolutions, dRaw and iRaw the texts they fetched
ThrowingRequest ==
  [pc |-> "idle", startTime |-> 0, tsResult |-> Failure("", NoTs),
   ts |-> NoTs, cacheKey |-> "",
   dpc |-> "idle", ipc |-> "idle", dRaw |-> <<>>, iRaw |-> <<>>,
   doctors |-> NoResult, institutions |-> NoResult,
   resp |-> NoResponse,
   look |-> [m |-> NoLook, d |-> NoLook, i |-> NoLook],
   legs |-> [dTs |-> "", iTs |-> "", d |-> "", i |-> ""],
   acts |-> {}]

\* part_013:63-104: Promise.all settles, then the merge, the cache write and the
\* response, or the catch block and errorHandler
PromiseAll(ctx, t) ==
  LET rq == ctx.rq
  IN IF rq.pc # "data" THEN ctx
     ELSE IF "failed" \in {rq.dpc, rq.ipc}
       THEN [ctx EXCEPT !.rq.pc = "done", !.rq.resp = errorHandler]
     ELSE IF rq.dpc = "ok" /\ rq.ipc = "ok"
       THEN
         LET mg == mergeDoctorsAndInstitutions(ctx.cim, ctx.cits, rq.doctors.val,
                                               rq.institutions.val, rq.ts.institutionsTs)
             responseData ==
               ObjectValue({"data", "meta"}, mg.data,
                           [timestamps |-> rq.ts,
                            doctorsCount |-> Len(rq.doctors.val),
                            institutionsCount |-> Len(rq.institutions.val),
                            mergedCount |-> Len(mg.data),
                            executionTime |-> calculateExecutionTime(rq.startTime, t)], t)
             st == setCacheWithTTL(ctx.m, ctx.e, rq.cacheKey, responseData, t)
         IN [ctx EXCEPT !.m = st.cache, !.e = st.expiry,
                        !.cim = mg.cachedMap, !.cits = mg.cachedTs,
                        !.rq.pc = "done",
                        !.rq.acts = @ \cup {"merge", "mWrite"}
                                      \cup (IF Evicted(ctx.m, st.cache) # {}
                                              THEN {"mEvict"} ELSE {}),
                        !.rq.resp = sendSuccess(mg.data, "absent", rq.startTime, t)]
     ELSE ctx

\* part_011:22-28 for the institutions: the cache lookup, and the fetch on a miss
EnterInstitutions_throwing(ctx, t) ==
  LET key == ctx.rq.ts.institutionsTs
      g == getCacheWithTTL(ctx.i, ctx.e, key, t)
      c1 == [ctx EXCEPT !.i = g.cache, !.e = g.expiry,
                        !.rq.look.i = Look(ctx.i, key, t, g)]
  IN IF g.result # undefined
       THEN [c1 EXCEPT !.rq.ipc = "ok", !.rq.institutions = Success(g.result.data)]
       ELSE [c1 EXCEPT !.rq.ipc = "fetch", !.rq.acts = @ \cup {"iFetch"}]

\* part_011:22-28 for the doctors
EnterDoctors_throwing(ctx, t) ==
  LET key == ctx.rq.ts.doctorsTs
      g == getCacheWithTTL(ctx.d, ctx.e, key, t)
      c1 == [ctx EXCEPT !.d = g.cache, !.e = g.expiry,
                        !.rq.look.d = Look(ctx.d, key, t, g)]
  IN IF g.result # undefined
       THEN [c1 EXCEPT !.rq.dpc = "ok", !.rq.doctors = Success(g.result.data)]
       ELSE [c1 EXCEPT !.rq.dpc = "fetch", !.rq.acts = @ \cup {"dFetch"}]

\* part_013:41-76: the merged-cache lookup, the branch for an invalid cached
\* value, and the start of the two dataset resolutions
CheckMergedCache_throwing(ctx, t) ==
  LET rq == ctx.rq
      cacheKey == rq.ts.doctorsTs \o "-" \o rq.ts.institutionsTs
      cachedData == getCacheWithTTL(ctx.m, ctx.e, cacheKey, t)
      c1 == [ctx EXCEPT !.m = cachedData.cache, !.e = cachedData.expiry,
                        !.rq.cacheKey = cacheKey,
                        !.rq.look.m = Look(ctx.m, cacheKey, t, cachedData)]
      c2 == IF cachedData.result # undefined /\ ~isCachedData(cachedData.result)
              THEN [c1 EXCEPT !.m = MapDelete(c1.m, cacheKey),
                              !.rq.acts = @ \cup {"mDelete"}]
              ELSE c1
  IN IF cachedData.result # undefined /\ isCachedData(cachedData.result)
       THEN [c1 EXCEPT !.rq.pc = "done",
                       !.rq.resp = sendSuccess(cachedData.result.data, "true",
                                               rq.startTime, t)]
       ELSE PromiseAll(
              EnterInstitutions_throwing(
                EnterDoctors_throwing([c2 EXCEPT !.rq.pc = "data"], t), t), t)

\* a request arrives: part_013:38.  The model admits it once the resolutions
\* of the previous request have run to their end
Start_throwing(r) ==
  /\ req[r].pc \in {"idle", "done"}
  /\ req[r].dpc \notin {"fetch", "parse"}
  /\ req[r].ipc \notin {"fetch", "parse"}
  /\ started < MaxStarted_throwing
  /\ started' = started + 1
  /\ req' = [req EXCEPT ![r] = [ThrowingRequest EXCEPT !.pc = "ts", !.startTime = now]]
  /\ UNCHANGED <<call, now, mergedDataCache, doctorsCache, institutionsCache, cacheExpiry,
                 cachedInstitutionsMap, cachedInstitutionsTs, redisStore>>

\* part_013:39-76: fetchTimestamps settles
Timestamps_throwing(r) ==
  /\ req[r].pc = "ts"
  /\ \E dResp \in TsResponses, iResp \in TsResponses :
       LET tsr == fetchTimestamps_throwing(dResp, iResp)
           c0 == [Ctx(r) EXCEPT !.rq.legs.dTs = TsLeg(dResp),
                                !.rq.legs.iTs = TsLeg(iResp),
                                !.rq.tsResult = tsr]
       IN IF tsr.tag = "err"
            THEN Apply([c0 EXCEPT !.rq.pc = "done", !.rq.resp = errorHandler], r)
            ELSE Apply(CheckMergedCache_throwing([c0 EXCEPT !.rq.ts = tsr.val], now), r)
  /\ UNCHANGED <<call, now, started, redisStore>>

\* part_011:28-34: the doctors fetch settles
DoctorsFetched_throwing(r) ==
  /\ req[r].dpc = "fetch"
  /\ \E resp \in DoctorsResponses :
       LET rawContent == fetchTextFile_throwing(resp, <<>>)
           c0 == [Ctx(r) EXCEPT !.rq.legs.d = DatasetLeg(resp)]
       IN IF rawContent.tag = "err" \/ rawContent.val = <<>>
            THEN Apply(PromiseAll([c0 EXCEPT !.rq.dpc = "failed"], now), r)
            ELSE Apply([c0 EXCEPT !.rq.dpc = "parse", !.rq.dRaw = rawContent.val,
                                  !.rq.acts = @ \cup {"dParse"}], r)
  /\ UNCHANGED <<call, now, started, redisStore>>

\* part_011:36-53: the doctors parse settles
DoctorsParsed_throwing(r) ==
  /\ req[r].dpc = "parse"
  /\ LET pr == parseRawContent(req[r].dRaw)
          c0 == [Ctx(r) EXCEPT !.rq.dRaw = <<>>]
     IN IF pr.tag = "err"
          THEN Apply(PromiseAll([c0 EXCEPT !.rq.dpc = "failed"], now), r)
          ELSE LET st == setCacheWithTTL(c0.d, c0.e, req[r].ts.doctorsTs,
                                         ArrayValue(pr.val.data, now), now)
               IN Apply(PromiseAll(
                    [c0 EXCEPT !.d = st.cache, !.e = st.expiry,
                               !.rq.dpc = "ok",
                               !.rq.doctors = Success(pr.val.data),
                               !.rq.acts = @ \cup {"dWrite"}
                                 \cup (IF Evicted(c0.d, st.cache) # {}
                                         THEN {"dEvict"} ELSE {})], now), r)
  /\ UNCHANGED <<call, now, started, redisStore>>

\* part_011:28-34: the institutions fetch settles
InstitutionsFetched_throwing(r) ==
  /\ req[r].ipc = "fetch"
  /\ \E resp \in InstitutionsResponses :
       LET rawContent == fetchTextFile_throwing(resp, <<>>)
           c0 == [Ctx(r) EXCEPT !.rq.legs.i = DatasetLeg(resp)]
       IN IF rawContent.tag = "err" \/ rawContent.val = <<>>
            THEN Apply(PromiseAll([c0 EXCEPT !.rq.ipc = "failed"], now), r)
            ELSE Apply([c0 EXCEPT !.rq.ipc = "parse", !.rq.iRaw = rawContent.val,
                                  !.rq.acts = @ \cup {"iParse"}], r)
  /\ UNCHANGED <<call, now, started, redisStore>>

\* part_011:36-53: the institutions parse settles
InstitutionsParsed_throwing(r) ==
  /\ req[r].ipc = "parse"
  /\ LET pr == parseRawContent(req[r].iRaw)
          c0 == [Ctx(r) EXCEPT !.rq.iRaw = <<>>]
     IN IF pr.tag = "err"
          THEN Apply(PromiseAll([c0 EXCEPT !.rq.ipc = "failed"], now), r)
          ELSE LET st == setCacheWithTTL(c0.i, c0.e, req[r].ts.institutionsTs,
                                         ArrayValue(pr.val.data, now), now)
               IN Apply(PromiseAll(
                    [c0 EXCEPT !.i = st.cache, !.e = st.expiry,
                               !.rq.ipc = "ok",
                               !.rq.institutions = Success(pr.val.data),
                               !.rq.acts = @ \cup {"iWrite"}
                                 \cup (IF Evicted(c0.i, st.cache) # {}
                                         THEN {"iEvict"} ELSE {})], now), r)
  /\ UNCHANGED <<call, now, started, redisStore>>

Init_throwing ==
  /\ now = 0
  /\ call = NoCall
  /\ mergedDataCache = <<>>
  /\ doctorsCache = <<>>
  /\ institutionsCache = <<>>
  /\ cacheExpiry = <<>>
  /\ cachedInstitutionsMap = NoMap
  /\ cachedInstitutionsTs = null
  /\ req = [r \in Req |-> ThrowingRequest]
  /\ started = 0
  /\ redisStore = <<>>

Next_throwing ==
  \/ Tick
  \/ \E r \in Req : Start_throwing(r)
  \/ \E r \in Req : Timestamps_throwing(r)
  \/ \E r \in Req : DoctorsFetched_throwing(r)
  \/ \E r \in Req : DoctorsParsed_throwing(r)
  \/ \E r \in Req : InstitutionsFetched_throwing(r)
  \/ \E r \in Req : InstitutionsParsed_throwing(r)

Spec_throwing == Init_throwing /\ [][Next_throwing]_vars

(***************************************************************************)
(* The route of routes/v1/index.ts:51-123 over Redis                       *)
(* (helpers/cacheUtils.ts), with fetchTimestamps of unnamed/part_011 and   *)
(* the merge of unnamed/part_008.  A cached value is a JSON text: json     *)
(* says whether JSON.parse accepts it, value is what it parses to.  Other  *)
(* clients of the store may overwrite a text.                              *)
(***************************************************************************)

\* toJSON of a number in a timestamp pair: JSON has no NaN, it becomes null
NaNToNull(v) == IF v = "NaN" THEN null ELSE v

\* JSON.stringify(value)
JSONstringify(v) ==
  [json |-> TRUE,
   value |-> [v EXCEPT !.meta.timestamps =
                [doctorsTs |-> NaNToNull(@.doctorsTs),
                 institutionsTs |-> NaNToNull(@.institutionsTs)]]]

\* JSON.parse(text): throws on a text that is not JSON
JSONparse(text) ==
  IF text.json THEN Success(text.value) ELSE Failure("SyntaxError", undefined)

\* a truncated text, and the text {}
CorruptText == [json |-> FALSE, value |-> undefined]
EmptyObjectText == JSONstringify(ObjectValue({}, <<>>, NoMeta, 0))

\* redisClient.get(key) at time t: nil for a key never set or expired
redisGet(store, key, t) ==
  IF key \in DOMAIN store /\ store[key].expireAt > t
    THEN [nil |-> FALSE, text |-> store[key].text]
    ELSE [nil |-> TRUE, text |-> CorruptText]

\* redisClient.set(key, text, 'EX', CACHE_TTL_SECONDS) at time t
redisSet(store, key, text, t) ==
  [k \in (DOMAIN store) \cup {key} |->
     IF k = key THEN [text |-> text, expireAt |-> t + CACHE_TTL_SECONDS,
                      foreign |-> FALSE]
     ELSE store[k]]

\* setCacheWithTTL(key, value) of helpers/cacheUtils.ts:14-22
setCacheWithTTL_redis(store, key, value, t) ==
  redisSet(store, key, JSONstringify(value), t)

\* isCachedData of helpers/cacheUtils.ts:24-31: an object with 'meta' and 'data'
isCachedData_redis(v) ==
  /\ v.kind \in {"object", "array"}
  /\ {"meta", "data"} \subseteq v.props

\* getCacheWithTTL(key) of helpers/cacheUtils.ts:33-45; tag "err" is a thrown error
getCacheWithTTL_redis(store, key, t) ==
  LET cachedValue == redisGet(store, key, t)
  IN IF cachedValue.nil THEN Success(undefined) ELSE JSONparse(cachedValue.text)

\* mergedDataCacheKey(ts)
mergedDataCacheKey(ts) == "merged-data-" \o ts.doctorsTs \o "-" \o ts.institutionsTs

\* getInstitutionsMap(institutions, institutionsTs) of helpers/cacheUtils.ts:47-68:
\* what JSON.parse yields is never a Map, so the map is built and stored again;
\* JSON.stringify of a Map is the text {}
getInstitutionsMap_redis(store, institutions, institutionsTs, t) ==
  LET cacheKey == "institutions-map-" \o institutionsTs
      cachedData == getCacheWithTTL_redis(store, cacheKey, t)
  IN IF cachedData.tag = "err"
       THEN [store |-> store, result |-> Failure(cachedData.err, {})]
       ELSE [store |-> redisSet(store, cacheKey, EmptyObjectText, t),
             result |-> Success({institutions[k].id_inst : k \in 1..Len(institutions)})]

\* mergeDoctorsAndInstitutions of part_008: one record per doctor, the unknown
\* institution (id '') when the map has none
mergeDoctorsAndInstitutions_async(doctors, ids) ==
  [k \in 1..Len(doctors) |->
     [id_inst |-> doctors[k].id_inst,
      institution |-> IF doctors[k].id_inst \in ids THEN doctors[k].id_inst ELSE ""]]

\* fetchAndParseWithCache(url, schema, timestamp) over Redis: the cached array
\* of the dataset for the timestamp, or fetch, parse and store
fetchAndParseWithCache_redis(store, dataset, timestamp, resp, t) ==
  LET key == dataset \o "-" \o timestamp
      cachedData == getCacheWithTTL_redis(store, key, t)
      rawContent == fetchTextFile_throwing(resp, <<>>)
      pr == parseRawContent(rawContent.val)
  IN IF cachedData.tag = "err"
       THEN [store |-> store, result |-> Failure(cachedData.err, <<>>)]
     ELSE IF cachedData.val # undefined
       THEN [store |-> store, result |-> Success(cachedData.val.data)]
     ELSE IF rawContent.tag = "err" \/ rawContent.val = <<>>
       THEN [store |-> store, result |-> Failure("Failed to fetch", <<>>)]
     ELSE IF pr.tag = "err"
       THEN [store |-> store, result |-> Failure("Failed to parse raw content", <<>>)]
     ELSE [store |-> setCacheWithTTL_redis(store, key, ArrayValue(pr.val.data, 0), t),
           result |-> Success(pr.val.data)]

\* a request of the index.ts route; text and outcome record what the lookup of
\* the merged result found and how it ended
RedisRequest ==
  [pc |-> "idle", startTime |-> 0, ts |-> NoTs, cacheKey |-> "",
   doctors |-> <<>>, institutions |-> <<>>, resp |-> NoResponse,
   text |-> "", outcome |-> "", acts |-> {}]

\* what the text under a key is to the route
TextKind(cachedValue) ==
  IF cachedValue.nil THEN "none"
  ELSE IF ~cachedValue.text.json THEN "corrupt"
  ELSE IF ~isCachedData_redis(cachedValue.text.value) THEN "invalid"
  ELSE "valid"

\* a request arrives: index.ts:53
Start_redis(r) ==
  /\ req[r].pc \in {"idle", "done"}
  /\ started < MaxStarted_redis
  /\ started' = started + 1
  /\ req' = [req EXCEPT ![r] = [RedisRequest EXCEPT !.pc = "ts", !.startTime = now]]
  /\ UNCHANGED <<call, now, mergedDataCache, doctorsCache, institutionsCache, cacheExpiry,
                 cachedInstitutionsMap, cachedInstitutionsTs, redisStore>>

\* index.ts:54-56: fetchTimestamps settles
Timestamps_redis(r) ==
  /\ req[r].pc = "ts"
  /\ \E dResp \in TsResponses, iResp \in TsResponses :
       LET ts == fetchTimestamps_throwing(dResp, iResp)
       IN IF ts.tag = "err"
            THEN req' = [req EXCEPT ![r].pc = "done", ![r].resp = errorHandler]
            ELSE req' = [req EXCEPT ![r].pc = "mGet", ![r].ts = ts.val,
                                    ![r].cacheKey = mergedDataCacheKey(ts.val)]
  /\ UNCHANGED <<call, now, mergedDataCache, doctorsCache, institutionsCache, cacheExpiry,
                 cachedInstitutionsMap, cachedInstitutionsTs, started, redisStore>>

\* a lookup of the merged result made while the timestamps are awaited
MergedGet_redis_first(r) ==
  /\ req[r].pc = "ts"
  /\ LET cachedData == getCacheWithTTL_redis(redisStore, req[r].cacheKey, now)
         text == TextKind(redisGet(redisStore, req[r].cacheKey, now))
     IN IF cachedData.tag = "err"
          THEN req' = [req EXCEPT ![r].pc = "done", ![r].resp = errorHandler,
                                  ![r].text = text, ![r].outcome = "threw"]
        ELSE IF cachedData.val # undefined /\ isCachedData_redis(cachedData.val)
          THEN req' = [req EXCEPT ![r].pc = "done",
                         ![r].resp = sendSuccess(cachedData.val.data, "true",
                                                 req[r].startTime, now),
                         ![r].text = text, ![r].outcome = "hit"]
        ELSE req' = [req EXCEPT ![r].pc = "datasets",
                                ![r].text = text, ![r].outcome = "miss"]
  /\ UNCHANGED <<call, now, mergedDataCache, doctorsCache, institutionsCache, cacheExpiry,
                 cachedInstitutionsMap, cachedInstitutionsTs, started, redisStore>>

\* index.ts:58-76: the lookup of the merged result settles
MergedGet_redis(r) ==
  /\ req[r].pc = "mGet"
  /\ LET cachedData == getCacheWithTTL_redis(redisStore, req[r].cacheKey, now)
         text == TextKind(redisGet(redisStore, req[r].cacheKey, now))
     IN IF cachedData.tag = "err"
          THEN req' = [req EXCEPT ![r].pc = "done", ![r].resp = errorHandler,
                                  ![r].text = text, ![r].outcome = "threw"]
        ELSE IF cachedData.val # undefined /\ isCachedData_redis(cachedData.val)
          THEN req' = [req EXCEPT ![r].pc = "done",
                         ![r].resp = sendSuccess(cachedData.val.data, "true",
                                                 req[r].startTime, now),
                         ![r].text = text, ![r].outcome = "hit"]
        ELSE req' = [req EXCEPT ![r].pc = "datasets",
                                ![r].text = text, ![r].outcome = "miss"]
  /\ UNCHANGED <<call, now, mergedDataCache, doctorsCache, institutionsCache, cacheExpiry,
                 cachedInstitutionsMap, cachedInstitutionsTs, started, redisStore>>

\* index.ts:78-89: the two dataset resolutions settle
Datasets_redis(r) ==
  /\ req[r].pc = "datasets"
  /\ \E dResp \in DoctorsResponses, iResp \in InstitutionsResponses :
       LET d == fetchAndParseWithCache_redis(redisStore, "doctors",
                                             req[r].ts.doctorsTs, dResp, now)
           i == fetchAndParseWithCache_redis(d.store, "institutions",
                                             req[r].ts.institutionsTs, iResp, now)
       IN /\ redisStore' = i.store
          /\ IF d.result.tag = "err" \/ i.result.tag = "err"
               THEN req' = [req EXCEPT ![r].pc = "done", ![r].resp = errorHandler,
                                       ![r].acts = @ \cup {"datasets"}]
               ELSE req' = [req EXCEPT ![r].pc = "merge",
                                       ![r].doctors = d.result.val,
                                       ![r].institutions = i.result.val,
                                       ![r].acts = @ \cup {"datasets"}]
  /\ UNCHANGED <<call, now, mergedDataCache, doctorsCache, institutionsCache, cacheExpiry,
                 cachedInstitutionsMap, cachedInstitutionsTs, started>>

\* index.ts:91-118: the merge, the cache write and the response
Merge_redis(r) ==
  /\ req[r].pc = "merge"
  /\ LET rq == req[r]
         im == getInstitutionsMap_redis(redisStore, rq.institutions,
                                        rq.ts.institutionsTs, now)
         mergedData == mergeDoctorsAndInstitutions_async(rq.doctors, im.result.val)
         responseData ==
           ObjectValue({"data", "meta"}, mergedData,
                       [timestamps |-> rq.ts,
                        doctorsCount |-> Len(rq.doctors),
                        institutionsCount |-> Len(rq.institutions),
                        mergedCount |-> Len(mergedData),
                        executionTime |-> calculateExecutionTime(rq.startTime, now)], 0)
     IN IF im.result.tag = "err"
          THEN /\ req' = [req EXCEPT ![r].pc = "done", ![r].resp = errorHandler]
               /\ redisStore' = im.store
          ELSE /\ redisStore' = setCacheWithTTL_redis(im.store, rq.cacheKey,
                                                      responseData, now)
               /\ req' = [req EXCEPT ![r].pc = "done",
                            ![r].acts = @ \cup {"merge", "mWrite"},
                            ![r].resp = sendSuccess(mergedData, "false",
                                                    rq.startTime, now)]
  /\ UNCHANGED <<call, now, mergedDataCache, doctorsCache, institutionsCache, cacheExpiry,
                 cachedInstitutionsMap, cachedInstitutionsTs, started>>

\* another client of the store overwrites the text under a key; foreign marks
\* the keys it wrote
Overwrite_redis ==
  /\ Cardinality({k \in DOMAIN redisStore : redisStore[k].foreign}) < MaxOverwrites
  /\ \E k \in DOMAIN redisStore, text \in {CorruptText, EmptyObjectText} :
       /\ ~redisStore[k].foreign
       /\ redisStore' = [redisStore EXCEPT ![k].text = text, ![k].foreign = TRUE]
  /\ UNCHANGED <<call, now, mergedDataCache, doctorsCache, institutionsCache, cacheExpiry,
                 cachedInstitutionsMap, cachedInstitutionsTs, req, started>>

\* what fetchTimestamps can settle to
TimestampResults ==
  {fetchTimestamps_throwing(dResp, iResp) : dResp \in TsResponses, iResp \in TsResponses}

\* the search route's lookup, had it removed the entry it serves
fetchOrUseCache_consuming ==
  /\ \E ts \in TimestampResults :
       LET cacheKey == mergedDataCacheKey(ts.val)
           cachedData == getCacheWithTTL_redis(redisStore, cacheKey, now)
       IN IF ts.tag = "err" \/ cachedData.tag = "err"
            THEN /\ call' = [op |-> "search", outcome |-> "threw", cacheHit |-> "absent"]
                 /\ UNCHANGED redisStore
          ELSE IF cachedData.val = undefined \/ ~isCachedData_redis(cachedData.val)
            THEN /\ call' = [op |-> "search", outcome |-> "home", cacheHit |-> "false"]
                 /\ UNCHANGED redisStore
          ELSE /\ call' = [op |-> "search", outcome |-> "hit", cacheHit |-> "true"]
               /\ redisStore' = [k \in (DOMAIN redisStore) \ {cacheKey} |-> redisStore[k]]
  /\ UNCHANGED <<now, mergedDataCache, doctorsCache, institutionsCache, cacheExpiry,
                 cachedInstitutionsMap, cachedInstitutionsTs, req, started>>

\* index.ts:198-226: fetchOrUseCache of the search route.  A failure of
\* fetchTimestamps or of JSON.parse is thrown; without a valid cached value
\* the data is asked of the home route, which is a request of its own; a
\* valid cached value is returned with meta replaced by {cacheHit: true}
fetchOrUseCache ==
  /\ \E ts \in TimestampResults :
       LET cacheKey == mergedDataCacheKey(ts.val)
           cachedData == getCacheWithTTL_redis(redisStore, cacheKey, now)
       IN IF ts.tag = "err" \/ cachedData.tag = "err"
            THEN call' = [op |-> "search", outcome |-> "threw", cacheHit |-> "absent"]
          ELSE IF cachedData.val = undefined \/ ~isCachedData_redis(cachedData.val)
            THEN call' = [op |-> "search", outcome |-> "home", cacheHit |-> "false"]
          ELSE call' = [op |-> "search", outcome |-> "hit", cacheHit |-> "true"]
  /\ UNCHANGED <<now, mergedDataCache, doctorsCache, institutionsCache, cacheExpiry,
                 cachedInstitutionsMap, cachedInstitutionsTs, req, started, redisStore>>

Init_redis ==
  /\ now = 0
  /\ call = NoCall
  /\ mergedDataCache = <<>>
  /\ doctorsCache = <<>>
  /\ institutionsCache = <<>>
  /\ cacheExpiry = <<>>
  /\ cachedInstitutionsMap = NoMap
  /\ cachedInstitutionsTs = null
  /\ req = [r \in Req |-> RedisRequest]
  /\ started = 0
  /\ redisStore = <<>>

Next_redis ==
  \/ Tick
  \/ \E r \in Req : Start_redis(r)
  \/ \E r \in Req : Timestamps_redis(r)
  \/ \E r \in Req : MergedGet_redis(r)
  \/ \E r \in Req : Datasets_redis(r)
  \/ \E r \in Req : Merge_redis(r)
  \/ Overwrite_redis
  \/ fetchOrUseCache

Spec_redis == Init_redis /\ [][Next_redis]_vars

(***************************************************************************)
(* Properties of the in-process pipeline (Spec).                           *)
(***************************************************************************)
CacheNames == {"m", "d", "i"}

\* the lookup of request r in cache c found an entry that was stored, and not
\* stored again, more than the TTL ago
ExpiredLookup(r, c) ==
  /\ req[r].look[c].had
  /\ req[r].look[c].at > req[r].look[c].storedAt + CACHE_TTL_MS

\* the lookup of request r in cache c found an entry whose TTL has not elapsed
LiveLookup(r, c) ==
  /\ req[r].look[c].had
  /\ req[r].look[c].at <= req[r].look[c].storedAt + CACHE_TTL_MS

\* C1: a getCacheWithTTL for a key stored more than the TTL ago returns absent
\* and removes the entry, its value and its expiry record
C1_TTLExpiry ==
  \A r \in Req : \A c \in CacheNames :
    ExpiredLookup(r, c) =>
      /\ ~req[r].look[c].hit
      /\ ~req[r].look[c].kept
      /\ ~req[r].look[c].keptExpiry

\* what a step does to one cache: wrote says that the step called
\* setCacheWithTTL(cache, key, ...) on it
EvictionRule(old, new, expiry, wrote, key) ==
  /\ Len(new) <= MAX_CACHE_SIZE
  /\ wrote => (key \in Keys(new) /\ key \in DOMAIN expiry)
  /\ (wrote /\ key \notin Keys(old) /\ Len(old) = MAX_CACHE_SIZE) =>
       /\ Len(new) = MAX_CACHE_SIZE
       /\ SubSeq(new, 1, Len(new) - 1) = Tail(old)
       /\ new[Len(new)].key = key
       /\ old[1].key \notin DOMAIN expiry
  /\ (wrote /\ key \notin Keys(old) /\ Len(old) < MAX_CACHE_SIZE) =>
       /\ Len(new) = Len(old) + 1
       /\ SubSeq(new, 1, Len(old)) = old

\* request r called setCacheWithTTL in this step on the cache its act w names
Wrote(r, w) == w \in req'[r].acts /\ w \notin req[r].acts

\* C2: a cache never holds more than MAX_CACHE_SIZE entries, and a set that
\* would exceed the limit evicts exactly the oldest-inserted entry with its
\* expiry record and keeps the entry just inserted
C2_SizeBoundFIFO ==
  [][\A r \in Req :
       /\ EvictionRule(mergedDataCache, mergedDataCache', cacheExpiry',
                       Wrote(r, "mWrite"), req'[r].cacheKey)
       /\ EvictionRule(doctorsCache, doctorsCache', cacheExpiry',
                       Wrote(r, "dWrite"), req'[r].ts.doctorsTs)
       /\ EvictionRule(institutionsCache, institutionsCache', cacheExpiry',
                       Wrote(r, "iWrite"), req'[r].ts.institutionsTs)]_vars

\* a request wrote the merged cache when it was full, and an entry was evicted
C2_Witness ==
  \E r \in Req :
    /\ "mEvict" \in req[r].acts
    /\ Len(mergedDataCache) = MAX_CACHE_SIZE
    /\ mergedDataCache[Len(mergedDataCache)].key = req[r].cacheKey

\* C3: in every cache of the pipeline, a get of a key whose last set is within
\* the TTL returns the stored value
C3_RoundTrip ==
  \A r \in Req : \A c \in CacheNames :
    LiveLookup(r, c) => (req[r].look[c].hit /\ req[r].look[c].same)

\* C4: a fetchAndParseWithCache that finds a live entry for its timestamp
\* issues no remote fetch and no parse
C4_DatasetCacheHit ==
  \A r \in Req :
    /\ LiveLookup(r, "d") => req[r].acts \cap {"dFetch", "dParse"} = {}
    /\ LiveLookup(r, "i") => req[r].acts \cap {"iFetch", "iParse"} = {}

\* C5: a request that finds a live merged result (an object with meta and
\* data) under the key of its timestamp pair answers from the cache and does
\* no dataset fetch, parse, merge or cache write
C5_MergedHitShortCircuits ==
  \A r \in Req :
    (LiveLookup(r, "m") /\ {"meta", "data"} \subseteq req[r].look.m.props) =>
      /\ req[r].pc = "done"
      /\ req[r].resp.status = 200
      /\ req[r].resp.cacheHit = "true"
      /\ req[r].acts = {}

\* fetchTimestamps of request r settled, no fetch threw, and a leg met a fetch
\* failure, a missing token or an unparsable token
TimestampFailure(r) ==
  /\ req[r].legs.dTs # ""
  /\ "rejected" \notin {req[r].legs.dTs, req[r].legs.iTs}
  /\ {req[r].legs.dTs, req[r].legs.iTs}
       \cap {"fetchFailure", "missing", "unparsable"} # {}

C9_TimestampsAreNumbers ==
  \A r \in Req :
    /\ (TimestampFailure(r)) => req[r].tsResult.tag = "err"
    /\ req[r].tsResult.tag = "ok" =>
         (req[r].legs.dTs = "number" /\ req[r].legs.iTs = "number")

(***************************************************************************)
(* Properties of the route that throws (Spec_throwing).                    *)
(***************************************************************************)

\* the lookup of request r in cache c found an entry within its TTL whose
\* value does not pass the shape guard
InvalidLookup(r, c) ==
  /\ LiveLookup(r, c)
  /\ ~(RequiredProps \subseteq req[r].look[c].props)

\* C6: a lookup that finds a value without the expected shape is a miss and
\* removes the entry from the cache
C6_InvalidValueDropped ==
  \A r \in Req : \A c \in CacheNames :
    InvalidLookup(r, c) => (~req[r].look[c].hit /\ ~req[r].look[c].kept)

\* a dataset resolution of request r failed on a fetch failure or on a
\* structural parse failure
HardDatasetFailure(r) ==
  \/ req[r].dpc = "failed" /\ req[r].legs.d \in {"fetchFailure", "structural"}
  \/ req[r].ipc = "failed" /\ req[r].legs.i \in {"fetchFailure", "structural"}

\* C10: a request with a hard dataset failure ends with a 500 response that
\* carries no data and reports the execution time
C10_DatasetFailureReportsTime ==
  \A r \in Req :
    HardDatasetFailure(r) =>
      /\ req[r].pc = "done"
      /\ req[r].resp.status = 500
      /\ req[r].resp.data = <<>>
      /\ req[r].resp.executionTime >= 0

(***************************************************************************)
(* Properties of the route over Redis (Spec_redis).                        *)
(***************************************************************************)

\* C7: a request that finds a corrupt or structurally invalid text under the
\* key of its merged result treats it as a miss and goes on to resolve the
\* datasets; it is not failed by the lookup
C7_CorruptionIsAMiss ==
  \A r \in Req :
    req[r].text \in {"corrupt", "invalid"} => req[r].outcome = "miss"

\* C11: a success response served from the merged cache carries cacheHit true,
\* and a success response of a request that merged carries cacheHit false
C11_CacheHitFlag ==
  \A r \in Req :
    req[r].resp.status = 200 =>
      /\ req[r].look.m.hit => req[r].resp.cacheHit = "true"
      /\ "merge" \in req[r].acts => req[r].resp.cacheHit = "false"

(***************************************************************************)
(* Further properties of the in-process pipeline (Spec).                   *)
(***************************************************************************)

\* C12: no request ends without a response, and a response is either a
\* success with one merged record per parsed doctor or an error without data
C12_ExactlyOneOutcome ==
  \A r \in Req :
    /\ req[r].pc # "rejected"
    /\ req[r].pc = "done" =>
         \/ /\ req[r].resp.status = 200
            /\ req[r].resp.success
            /\ "merge" \in req[r].acts => Len(req[r].resp.data) = Len(req[r].doctors.val)
         \/ /\ req[r].resp.status = 500
            /\ ~req[r].resp.success
            /\ req[r].resp.data = <<>>

\* C14: while the doctors resolution of a request is in flight the institutions
\* resolution has been started too, and a request merges only after both
\* resolutions have succeeded
C14_ConcurrentResolution ==
  \A r \in Req :
    /\ req[r].pc \in {"dFetch", "dParse"} => req[r].look.i.at # -1
    /\ "merge" \in req[r].acts =>
         (req[r].doctors.tag = "ok" /\ req[r].institutions.tag = "ok")

\* C15: a fetch that meets a network error or a body read error reaches the
\* route as a failure value: fetchTimestamps does not reject and the handler
\* of the request does not end rejected
C15_FailuresAreValues ==
  \A r \in Req :
    "rejected" \in {req[r].legs.dTs, req[r].legs.iTs, req[r].legs.d, req[r].legs.i} =>
      /\ req[r].tsResult.tag # "rejected"
      /\ req[r].pc # "rejected"

(***************************************************************************)
(* Further properties of the route that throws (Spec_throwing).            *)
(***************************************************************************)

\* C13: a request that finds the merged result of its timestamp pair stored
\* and within its TTL does not resolve the datasets, merge or store again
C13_ProducedOncePerPair ==
  \A r \in Req :
    LiveLookup(r, "m") =>
      req[r].acts \cap {"dFetch", "iFetch", "merge", "mWrite"} = {}

(***************************************************************************)
(* fetchTextFile on its own (unnamed/part_022): Spec_fetchTextFile calls   *)
(* it once on a response drawn from the statuses, headers and bodies       *)
(* below.                                                                  *)
(***************************************************************************)
Statuses == {<<200, "OK">>, <<204, "No Content">>, <<301, "Moved Permanently">>,
             <<404, "Not Found">>, <<500, "Internal Server Error">>}
ContentTypes == {"none", "text/plain", "text/plain; charset=utf-8", "text/html",
                 "application/json"}
Bodies == {"", "1\n", "<html>"}

\* Response.ok: the status is in the range 200-299
Ok(status) == status \in 200..299

\* what fetchTextFile returns in place of a body when it fails
NoBody == "undefined"

FetchInputs ==
  {[HttpResponse(settled, Ok(st[1]), ctype, clen, readable, body)
      EXCEPT !.statusText = st[2]] :
     settled \in {"fulfilled", "rejected"}, st \in Statuses, ctype \in ContentTypes,
     clen \in BOOLEAN, readable \in BOOLEAN, body \in Bodies}

\* the promise fetchTextFile returned settles
Settle_fetchTextFile ==
  /\ call.op = "fetchTextFile"
  /\ call.pc = "called"
  /\ call' = [call EXCEPT !.pc = "settled",
                          !.result = fetchTextFile(call.resp, NoBody)]
  /\ UNCHANGED <<now, mergedDataCache, doctorsCache, institutionsCache, cacheExpiry,
                 cachedInstitutionsMap, cachedInstitutionsTs, req, started, redisStore>>

Init_fetchTextFile ==
  /\ now = 0
  /\ mergedDataCache = <<>>
  /\ doctorsCache = <<>>
  /\ institutionsCache = <<>>
  /\ cacheExpiry = <<>>
  /\ cachedInstitutionsMap = NoMap
  /\ cachedInstitutionsTs = null
  /\ req = [r \in Req |-> IdleRequest]
  /\ started = 0
  /\ redisStore = <<>>
  /\ call \in {[op |-> "fetchTextFile", pc |-> "called", resp |-> x,
                result |-> Failure("", NoBody)] : x \in FetchInputs}

Next_fetchTextFile == Settle_fetchTextFile

Spec_fetchTextFile == Init_fetchTextFile /\ [][Next_fetchTextFile]_vars

\* C16: fetchTextFile returns the body only for a 2xx response whose
\* content-type contains text/plain and that has a content-length; a non-2xx
\* status yields a failure with the status text, a wrong or missing
\* content-type or a missing content-length a failure, all without a body
C16_FetcherValidation ==
  (call.pc = "settled" /\ call.resp.settled = "fulfilled") =>
    /\ call.result.tag = "ok" =>
         /\ call.resp.ok /\ IncludesTextPlain(call.resp.ctype) /\ call.resp.clen
         /\ call.result.val = call.resp.body
    /\ ~call.resp.ok =>
         /\ call.result.tag = "err"
         /\ call.result.err = "Failed to fetch file: " \o call.resp.statusText
         /\ call.result.val = NoBody
    /\ (call.resp.ok /\ (~IncludesTextPlain(call.resp.ctype) \/ ~call.resp.clen)) =>
         /\ call.result.tag = "err"
         /\ call.result.val = NoBody

\* a 2xx text/plain response without content-length was refused
C16_Witness ==
  /\ call.pc = "settled"
  /\ call.resp.settled = "fulfilled"
  /\ call.resp.ok /\ IncludesTextPlain(call.resp.ctype) /\ ~call.resp.clen
  /\ call.resp.body # ""
  /\ call.result.tag = "err"

(***************************************************************************)
(* parseRawContent on its own (unnamed/part_021:102-141), event by event:  *)
(* Spec_parse writes a content of at most MaxRows records after the header *)
(* to the parser, which emits 'data' for each record in turn, 'error' at   *)
(* the first record whose length differs from the header's, and 'end'      *)
(* after the last one.                                                     *)
(***************************************************************************)
RowKinds == {Row(cols, ok, id) : cols \in {1, 2}, ok \in BOOLEAN, id \in {"a", "b"}}

Contents ==
  {<<>>} \cup {<<Header>> \o rows :
                 rows \in UNION {[1..n -> RowKinds] : n \in 0..MaxRows}}

\* the records after the header
Records(content) == IF content = <<>> THEN <<>> ELSE Tail(content)

\* part_021:107-110: the promise's locals
ParseCall(content) ==
  [op |-> "parseRawContent", pc |-> "parsing", content |-> content, next |-> 1,
   totalRows |-> 0, validRows |-> <<>>, invalidRows |-> 0,
   result |-> Failure("", NoParse)]

\* the row callback that puts a valid row first
Row_parse_prepend ==
  /\ call.op = "parseRawContent"
  /\ call.pc = "parsing"
  /\ call.next <= Len(Records(call.content))
  /\ Records(call.content)[call.next].cols = Head(call.content).cols
  /\ LET row == Records(call.content)[call.next]
     IN call' = [call EXCEPT
                   !.next = @ + 1,
                   !.totalRows = @ + 1,
                   !.validRows = IF row.ok THEN <<[id_inst |-> row.id_inst]>> \o @
                                 ELSE @,
                   !.invalidRows = IF row.ok THEN @ ELSE @ + 1]
  /\ UNCHANGED <<now, mergedDataCache, doctorsCache, institutionsCache, cacheExpiry,
                 cachedInstitutionsMap, cachedInstitutionsTs, req, started, redisStore>>

\* the row callback that does not count an invalid row
Row_parse_uncounted ==
  /\ call.op = "parseRawContent"
  /\ call.pc = "parsing"
  /\ call.next <= Len(Records(call.content))
  /\ Records(call.content)[call.next].cols = Head(call.content).cols
  /\ LET row == Records(call.content)[call.next]
     IN call' = [call EXCEPT
                   !.next = @ + 1,
                   !.totalRows = @ + 1,
                   !.validRows = IF row.ok THEN Append(@, [id_inst |-> row.id_inst])
                                 ELSE @]
  /\ UNCHANGED <<now, mergedDataCache, doctorsCache, institutionsCache, cacheExpiry,
                 cachedInstitutionsMap, cachedInstitutionsTs, req, started, redisStore>>

\* part_021:112-117: the parser emits 'data' and the row callback runs
Row_parse ==
  /\ call.op = "parseRawContent"
  /\ call.pc = "parsing"
  /\ call.next <= Len(Records(call.content))
  /\ Records(call.content)[call.next].cols = Head(call.content).cols
  /\ LET row == Records(call.content)[call.next]
     IN call' = [call EXCEPT
                   !.next = @ + 1,
                   !.totalRows = @ + 1,
                   !.validRows = IF row.ok THEN Append(@, [id_inst |-> row.id_inst])
                                 ELSE @,
                   !.invalidRows = IF row.ok THEN @ ELSE @ + 1]
  /\ UNCHANGED <<now, mergedDataCache, doctorsCache, institutionsCache, cacheExpiry,
                 cachedInstitutionsMap, cachedInstitutionsTs, req, started, redisStore>>

\* a parser that skips a record of the wrong length
Error_parse_relaxed ==
  /\ call.op = "parseRawContent"
  /\ call.pc = "parsing"
  /\ call.next <= Len(Records(call.content))
  /\ Records(call.content)[call.next].cols # Head(call.content).cols
  /\ call' = [call EXCEPT !.next = @ + 1]
  /\ UNCHANGED <<now, mergedDataCache, doctorsCache, institutionsCache, cacheExpiry,
                 cachedInstitutionsMap, cachedInstitutionsTs, req, started, redisStore>>

\* part_021:133, 140: the parser emits 'error' (columns: true and a record of
\* another length), the promise rejects and handlePromise returns [err]
Error_parse ==
  /\ call.op = "parseRawContent"
  /\ call.pc = "parsing"
  /\ call.next <= Len(Records(call.content))
  /\ Records(call.content)[call.next].cols # Head(call.content).cols
  /\ call' = [call EXCEPT !.pc = "settled",
                          !.result = Failure("Invalid Record Length", NoParse)]
  /\ UNCHANGED <<now, mergedDataCache, doctorsCache, institutionsCache, cacheExpiry,
                 cachedInstitutionsMap, cachedInstitutionsTs, req, started, redisStore>>

\* part_021:122-131, 140: the parser emits 'end', the promise resolves and
\* handlePromise returns [undefined, result]
End_parse ==
  /\ call.op = "parseRawContent"
  /\ call.pc = "parsing"
  /\ call.next > Len(Records(call.content))
  /\ call' = [call EXCEPT
                !.pc = "settled",
                !.result = Success([data |-> call.validRows,
                                    meta |-> [totalRows |-> call.totalRows,
                                              validRows |-> Len(call.validRows),
                                              invalidRows |-> call.invalidRows,
                                              allValid |-> call.invalidRows = 0]])]
  /\ UNCHANGED <<now, mergedDataCache, doctorsCache, institutionsCache, cacheExpiry,
                 cachedInstitutionsMap, cachedInstitutionsTs, req, started, redisStore>>

Init_parse ==
  /\ now = 0
  /\ mergedDataCache = <<>>
  /\ doctorsCache = <<>>
  /\ institutionsCache = <<>>
  /\ cacheExpiry = <<>>
  /\ cachedInstitutionsMap = NoMap
  /\ cachedInstitutionsTs = null
  /\ req = [r \in Req |-> IdleRequest]
  /\ started = 0
  /\ redisStore = <<>>
  /\ call \in {ParseCall(content) : content \in Contents}

Next_parse ==
  \/ Row_parse
  \/ Error_parse
  \/ End_parse

Spec_parse == Init_parse /\ [][Next_parse]_vars

\* the content has a record whose length differs from the header's
Malformed(content) ==
  \E k \in 1..Len(Records(content)) : Records(content)[k].cols # Head(content).cols

\* C17: a parse of a content with a record of another length than the header
\* ends with the error Invalid Record Length and without a result
C17_StructuralFailureIsHard ==
  (call.pc = "settled" /\ Malformed(call.content)) =>
    /\ call.result.tag = "err"
    /\ call.result.err = "Invalid Record Length"
    /\ call.result.val = NoParse

\* a parse failed on a malformed record after it had accepted a valid row, and
\* a well-formed record follows the malformed one
C17_Witness ==
  /\ call.pc = "settled"
  /\ call.result.tag = "err"
  /\ call.validRows # <<>>
  /\ call.next < Len(Records(call.content))
  /\ Records(call.content)[call.next + 1].cols = Head(call.content).cols

\* the records of the content that pass the schema, in input order
ValidRecords(content) == SelectSeq(Records(content), LAMBDA row : row.ok)

\* C18: the counters of a parse satisfy totalRows = validRows + invalidRows
\* after every row event, and a completed parse of a header plus N rows of
\* consistent width reports totalRows = N, validRows + invalidRows = N,
\* data.length = validRows and allValid = (invalidRows = 0)
C18_RowAccounting ==
  /\ call.totalRows = Len(call.validRows) + call.invalidRows
  /\ (call.pc = "settled" /\ call.content # <<>> /\ ~Malformed(call.content)) =>
       /\ call.result.tag = "ok"
       /\ call.result.val.meta.totalRows = Len(Records(call.content))
       /\ call.result.val.meta.validRows + call.result.val.meta.invalidRows
            = Len(Records(call.content))
       /\ Len(call.result.val.data) = call.result.val.meta.validRows
       /\ call.result.val.meta.allValid = (call.result.val.meta.invalidRows = 0)

\* a parse of MaxRows rows of consistent width has completed with valid and
\* invalid rows among them
C18_Witness ==
  /\ call.pc = "settled"
  /\ ~Malformed(call.content)
  /\ Len(Records(call.content)) = MaxRows
  /\ call.result.tag = "ok"
  /\ call.result.val.meta.validRows > 0
  /\ call.result.val.meta.invalidRows > 0

\* C19: a row that fails the schema is counted in invalidRows and left out of
\* data, the rows after it are still parsed, the valid rows are in data in
\* their input order, and the parse succeeds with allValid = false
C19_ValidationFailureIsSoft ==
  (/\ call.pc = "settled"
   /\ ~Malformed(call.content)
   /\ \E k \in 1..Len(Records(call.content)) : ~Records(call.content)[k].ok) =>
    /\ call.result.tag = "ok"
    /\ call.result.val.data =
         [k \in 1..Len(ValidRecords(call.content)) |->
            [id_inst |-> ValidRecords(call.content)[k].id_inst]]
    /\ call.result.val.meta.invalidRows =
         Len(Records(call.content)) - Len(ValidRecords(call.content))
    /\ call.result.val.meta.allValid = FALSE

\* a parse has completed in which an invalid row stood between two valid rows
\* of different ids
C19_Witness ==
  /\ call.pc = "settled"
  /\ call.result.tag = "ok"
  /\ Len(Records(call.content)) = 3
  /\ Records(call.content)[1].ok
  /\ ~Records(call.content)[2].ok
  /\ Records(call.content)[3].ok
  /\ Records(call.content)[1].id_inst # Records(call.content)[3].id_inst
  /\ Len(call.result.val.data) = 2

(***************************************************************************)
(* processStream (unnamed/part_021:22-70) and parseCompressedFile          *)
(* (utils/fileHelper.ts:64-121), event by event: Spec_stream pipes an      *)
(* input stream into the parser.  The input either ends normally after its *)
(* last record or closes before that.  After a normal end the input's      *)
(* 'close' and the parser's 'end' are events of two streams, and the       *)
(* runtime may deliver them in either order.  A promise settles once.      *)
(***************************************************************************)
PrematureEnd == "Premature stream closure or unexpected end"

\* part_021:27-30, fileHelper.ts:73-76: the promise's locals; ends tells
\* whether the input will end normally
StreamCall(content, ends) ==
  [op |-> "processStream", content |-> content, ends |-> ends, next |-> 1,
   totalRows |-> 0, validRows |-> <<>>, invalidRows |-> 0,
   streamEnded |-> FALSE, inputEnded |-> FALSE, closed |-> FALSE,
   parser |-> "open", settled |-> "pending", result |-> Failure("", NoParse)]

\* a promise settles once: resolve and reject after that change nothing
Settle(c, how, result) ==
  IF c.settled = "pending"
    THEN [c EXCEPT !.settled = how, !.result = result]
    ELSE c

\* part_021:32-37, fileHelper.ts:81-86: the input has passed a record to the
\* parser, which emits 'data' and the row callback runs
Row_stream ==
  /\ call.op = "processStream"
  /\ call.parser = "open"
  /\ ~call.inputEnded
  /\ ~call.closed
  /\ call.next <= Len(Records(call.content))
  /\ Records(call.content)[call.next].cols = Head(call.content).cols
  /\ LET row == Records(call.content)[call.next]
     IN call' = [call EXCEPT
                   !.next = @ + 1,
                   !.totalRows = @ + 1,
                   !.validRows = IF row.ok THEN Append(@, [id_inst |-> row.id_inst])
                                 ELSE @,
                   !.invalidRows = IF row.ok THEN @ ELSE @ + 1]
  /\ UNCHANGED <<now, mergedDataCache, doctorsCache, institutionsCache, cacheExpiry,
                 cachedInstitutionsMap, cachedInstitutionsTs, req, started, redisStore>>

\* part_021:65, fileHelper.ts:114: the parser emits 'error' at a record of
\* another length than the header's, and onError is reject
Error_stream ==
  /\ call.op = "processStream"
  /\ call.parser = "open"
  /\ ~call.inputEnded
  /\ ~call.closed
  /\ call.next <= Len(Records(call.content))
  /\ Records(call.content)[call.next].cols # Head(call.content).cols
  /\ call' = Settle([call EXCEPT !.parser = "errored"], "rejected",
                    Failure("Invalid Record Length", NoParse))
  /\ UNCHANGED <<now, mergedDataCache, doctorsCache, institutionsCache, cacheExpiry,
                 cachedInstitutionsMap, cachedInstitutionsTs, req, started, redisStore>>

\* part_021:68, fileHelper.ts:117: the input emits 'end' after its last
\* record and pipe calls parser.end()
InputEnd_stream ==
  /\ call.op = "processStream"
  /\ call.ends
  /\ call.parser = "open"
  /\ ~call.inputEnded
  /\ ~call.closed
  /\ call.next > Len(Records(call.content))
  /\ call' = [call EXCEPT !.inputEnded = TRUE]
  /\ UNCHANGED <<now, mergedDataCache, doctorsCache, institutionsCache, cacheExpiry,
                 cachedInstitutionsMap, cachedInstitutionsTs, req, started, redisStore>>

\* part_021:40-42, 54-64, fileHelper.ts:98-112: the parser emits 'end';
\* streamEnded is set and onComplete resolves with the result
ParserEnd_stream ==
  /\ call.op = "processStream"
  /\ call.parser = "open"
  /\ call.inputEnded
  /\ call' = Settle([call EXCEPT !.parser = "ended", !.streamEnded = TRUE], "resolved",
                    Success([data |-> call.validRows,
                             meta |-> [totalRows |-> call.totalRows,
                                       validRows |-> Len(call.validRows),
                                       invalidRows |-> call.invalidRows,
                                       allValid |-> call.invalidRows = 0]]))
  /\ UNCHANGED <<now, mergedDataCache, doctorsCache, institutionsCache, cacheExpiry,
                 cachedInstitutionsMap, cachedInstitutionsTs, req, started, redisStore>>

\* part_021:44-49, fileHelper.ts:88-94: the input emits 'close', after its
\* 'end' or, for an input that does not end, at any moment; onStreamClose
\* rejects unless streamEnded is set
Close_stream ==
  /\ call.op = "processStream"
  /\ ~call.closed
  /\ call.inputEnded \/ ~call.ends
  /\ call' = IF call.streamEnded
               THEN [call EXCEPT !.closed = TRUE]
               ELSE Settle([call EXCEPT !.closed = TRUE], "rejected",
                           Failure(PrematureEnd, NoParse))
  /\ UNCHANGED <<now, mergedDataCache, doctorsCache, institutionsCache, cacheExpiry,
                 cachedInstitutionsMap, cachedInstitutionsTs, req, started, redisStore>>

Init_stream ==
  /\ now = 0
  /\ mergedDataCache = <<>>
  /\ doctorsCache = <<>>
  /\ institutionsCache = <<>>
  /\ cacheExpiry = <<>>
  /\ cachedInstitutionsMap = NoMap
  /\ cachedInstitutionsTs = null
  /\ req = [r \in Req |-> IdleRequest]
  /\ started = 0
  /\ redisStore = <<>>
  /\ call \in {StreamCall(content, ends) : content \in Contents, ends \in BOOLEAN}

Next_stream ==
  \/ Row_stream
  \/ Error_stream
  \/ InputEnd_stream
  \/ ParserEnd_stream
  \/ Close_stream

Spec_stream == Init_stream /\ [][Next_stream]_vars

\* the input has ended normally, its records were of consistent width, and
\* both the input's 'close' and the parser's 'end' have been delivered
NormalEnd ==
  /\ call.ends
  /\ ~Malformed(call.content)
  /\ call.closed
  /\ call.parser = "ended"

\* C20: the stream parse fails with the premature-closure error only for an
\* input that closed without ending, and then it does; an input that ended
\* normally resolves with its result whichever of the input's 'close' and
\* the parser's 'end' came first, an empty input with totalRows = 0,
\* data = [] and allValid = true
C20_PrematureClosureVersusNormalEnd ==
  /\ (call.settled = "rejected" /\ call.result.err = PrematureEnd) => ~call.ends
  /\ (~call.ends /\ call.closed /\ call.parser = "open") =>
       (call.settled = "rejected" /\ call.result.err = PrematureEnd)
  /\ NormalEnd =>
       /\ call.settled = "resolved"
       /\ call.result.val.meta.totalRows = Len(Records(call.content))
  /\ (NormalEnd /\ call.content = <<>>) =>
       call.result = Success([data |-> <<>>,
                              meta |-> [totalRows |-> 0, validRows |-> 0,
                                        invalidRows |-> 0, allValid |-> TRUE]])

(***************************************************************************)
(* mergeDoctorsAndInstitutions on its own.  Spec_merge calls the merge     *)
(* with lists of at most MaxList parsed records again and again, so that   *)
(* the institutions map kept between calls (unnamed/part_009:57-73, or the *)
(* Redis key of helpers/cacheUtils.ts:47-68) is part of the state.  Three  *)
(* versions of the merge are called: unnamed/part_008 over each of the two *)
(* maps, and helpers/responseUtils.ts:99-114, which has no placeholder.    *)
(***************************************************************************)
InstitutionIds == {"a", "b"}
MergeTimestamps == {"1", "2"}

\* lists of parsed records; a record is named by its id_inst
RecordLists ==
  UNION {[1..n -> {[id_inst |-> id] : id \in InstitutionIds}] : n \in 0..MaxList}

\* institutionsRawSchema.parse(undefined) throws a ZodError
ZodError == "ZodError"

\* mergeDoctorsAndInstitutions of helpers/responseUtils.ts:99-114: the
\* institution is whatever the map has, and undefined does not pass the schema
mergeDoctorsAndInstitutions_strict(doctors, ids) ==
  IF \E k \in 1..Len(doctors) : doctors[k].id_inst \notin ids
    THEN Failure(ZodError, <<>>)
    ELSE Success([k \in 1..Len(doctors) |->
                    [id_inst |-> doctors[k].id_inst,
                     institution |-> doctors[k].id_inst]])

MergeCall(version, doctors, institutions, institutionsTs, result) ==
  [op |-> "merge", version |-> version, doctors |-> doctors,
   institutions |-> institutions, institutionsTs |-> institutionsTs,
   result |-> result]

\* part_008:32-52 over the map of part_009:57-73
Merge_memory ==
  \E doctors \in RecordLists, institutions \in RecordLists, ts \in MergeTimestamps :
    LET im == getInstitutionsMap(cachedInstitutionsMap, cachedInstitutionsTs,
                                 institutions, ts)
    IN /\ cachedInstitutionsMap' = im.cachedMap
       /\ cachedInstitutionsTs' = im.cachedTs
       /\ call' = MergeCall("memory", doctors, institutions, ts,
                    Success(mergeDoctorsAndInstitutions_async(doctors, im.map.ids)))
       /\ UNCHANGED <<now, mergedDataCache, doctorsCache, institutionsCache,
                      cacheExpiry, req, started, redisStore>>

\* part_008:32-52 over the map of helpers/cacheUtils.ts:47-68
Merge_redisMap ==
  \E doctors \in RecordLists, institutions \in RecordLists, ts \in MergeTimestamps :
    LET im == getInstitutionsMap_redis(redisStore, institutions, ts, now)
    IN /\ redisStore' = im.store
       /\ call' = MergeCall("redis", doctors, institutions, ts,
                    IF im.result.tag = "err"
                      THEN Failure(im.result.err, <<>>)
                      ELSE Success(mergeDoctorsAndInstitutions_async(doctors,
                                                                     im.result.val)))
       /\ UNCHANGED <<now, mergedDataCache, doctorsCache, institutionsCache,
                      cacheExpiry, cachedInstitutionsMap, cachedInstitutionsTs,
                      req, started>>

\* helpers/responseUtils.ts:99-114 over the map of part_009:57-73
Merge_strict ==
  \E doctors \in RecordLists, institutions \in RecordLists, ts \in MergeTimestamps :
    LET im == getInstitutionsMap(cachedInstitutionsMap, cachedInstitutionsTs,
                                 institutions, ts)
    IN /\ cachedInstitutionsMap' = im.cachedMap
       /\ cachedInstitutionsTs' = im.cachedTs
       /\ call' = MergeCall("strict", doctors, institutions, ts,
                    mergeDoctorsAndInstitutions_strict(doctors, im.map.ids))
       /\ UNCHANGED <<now, mergedDataCache, doctorsCache, institutionsCache,
                      cacheExpiry, req, started, redisStore>>

Init_merge ==
  /\ now = 0
  /\ call = NoCall
  /\ mergedDataCache = <<>>
  /\ doctorsCache = <<>>
  /\ institutionsCache = <<>>
  /\ cacheExpiry = <<>>
  /\ cachedInstitutionsMap = NoMap
  /\ cachedInstitutionsTs = null
  /\ req = [r \in Req |-> IdleRequest]
  /\ started = 0
  /\ redisStore = <<>>

Next_merge ==
  \/ Merge_memory
  \/ Merge_redisMap
  \/ Merge_strict

Spec_merge == Init_merge /\ [][Next_merge]_vars

\* C21: every merge returns without failing one merged record per doctor
\* record, in the order of the doctor records, also when a doctor's
\* institution id matches no institution
C21_MergeTotalOrderPreserving ==
  call.op = "merge" =>
    /\ call.result.tag = "ok"
    /\ Len(call.result.val) = Len(call.doctors)
    /\ \A k \in 1..Len(call.doctors) :
         call.result.val[k].id_inst = call.doctors[k].id_inst

\* the ids of the institution records passed to the merge
Snapshot(institutions) == {institutions[k].id_inst : k \in 1..Len(institutions)}

\* C22: every record merged by part_008 names the institution of the snapshot
\* passed to the merge that has the doctor's institution id, or the
\* placeholder of id '' when that snapshot has none
C22_LeftOuterJoin ==
  (call.op = "merge" /\ call.version \in {"memory", "redis"}) =>
    /\ call.result.tag = "ok"
    /\ \A k \in 1..Len(call.result.val) :
         call.result.val[k].institution =
           IF call.doctors[k].id_inst \in Snapshot(call.institutions)
             THEN call.doctors[k].id_inst
             ELSE ""

(***************************************************************************)
(* The transform of doctorsMergedSchema (unnamed/part_007:61-127) on one   *)
(* doctor and one institution.  A post is the sequence of its characters,  *)
(* so that split(' ') and join(' ') are computed; the other fields are     *)
(* values: '' or a value that tells whose it is.  lat and lon are null,    *)
(* '' or the text of a number.                                             *)
(***************************************************************************)
DoctorPosts == {<<>>, <<"1", " ", "L">>, <<"1", " ", "N", " ", "m">>}
InstitutionPosts == {<<>>, <<"2", " ", "M">>}

DoctorInputs ==
  [type : {"gp"}, id_inst : {"a"}, doctor : {"x"},
   address : {"", "d"}, city : {"", "d"}, municipality : {"", "d"},
   municipalityPart : {"", "d"}, post : DoctorPosts,
   lat : {null, "", "1"}, lon : {null, "", "2"}]

InstitutionInputs ==
  [id_inst : {"a"},
   address : {"", "i"}, city : {"", "i"}, municipality : {"", "i"},
   municipalityPart : {"", "i"}, post : InstitutionPosts,
   lat : {"", "2"}, lon : {"", "1"}]

\* JavaScript truthiness of a string or null
TruthyString(v) == v \notin {null, ""}

\* JavaScript truthiness of a string kept as its characters
TruthyChars(s) == s # <<>>

\* Number(v) of a string or null: Number(null) is 0
NumberOrNull(v) == IF v = null THEN "0" ELSE Number(v)

\* the index of the first ' ' of s, 0 when it has none
FirstSpace(s) ==
  IF \E k \in 1..Len(s) : s[k] = " "
    THEN CHOOSE k \in 1..Len(s) : s[k] = " " /\ \A j \in 1..(k - 1) : s[j] # " "
    ELSE 0

\* s.split(' ')
RECURSIVE Split(_)
Split(s) ==
  IF FirstSpace(s) = 0 THEN <<s>>
  ELSE <<SubSeq(s, 1, FirstSpace(s) - 1)>> \o Split(SubSeq(s, FirstSpace(s) + 1, Len(s)))

\* parts.join(' ')
RECURSIVE Join(_)
Join(parts) ==
  IF parts = <<>> THEN <<>>
  ELSE IF Len(parts) = 1 THEN parts[1]
  ELSE parts[1] \o <<" ">> \o Join(Tail(parts))

\* part_007:4-8: the string given to the digest, and the digest of it; two
\* digests are equal exactly when the strings are
generateDoctorId(val) ==
  [sha256 |-> val.type \o "|" \o val.id_inst \o "|" \o val.doctor]

\* a transform that lets the institution's city win
doctorsMergedSchema_institutionFirst(doctor, institution) ==
  LET post == IF TruthyChars(doctor.post) THEN doctor.post ELSE institution.post
  IN [id |-> generateDoctorId(doctor),
      fullName |-> doctor.doctor,
      institution |-> [id |-> institution.id_inst],
      location |->
        [lat |-> IF ~TruthyString(doctor.lat) THEN NumberOrNull(institution.lat)
                 ELSE NumberOrNull(doctor.lat),
         lon |-> IF ~TruthyString(doctor.lon) THEN NumberOrNull(institution.lon)
                 ELSE NumberOrNull(doctor.lon)],
      address |->
        [street |-> IF TruthyString(doctor.address) THEN doctor.address
                    ELSE institution.address,
         city |-> IF TruthyString(institution.city) THEN institution.city
                  ELSE doctor.city,
         municipality |-> IF TruthyString(doctor.municipality)
                            THEN doctor.municipality ELSE institution.municipality,
         municipalityPart |-> IF TruthyString(doctor.municipalityPart)
                                THEN doctor.municipalityPart
                                ELSE institution.municipalityPart,
         postalCode |-> Head(Split(post)),
         postalName |-> Join(Tail(Split(post)))]]

\* part_007:66-127: the transform, with the fields the model follows
doctorsMergedSchema(doctor, institution) ==
  LET post == IF TruthyChars(doctor.post) THEN doctor.post ELSE institution.post
  IN [id |-> generateDoctorId(doctor),
      fullName |-> doctor.doctor,
      institution |-> [id |-> institution.id_inst],
      location |->
        [lat |-> IF ~TruthyString(doctor.lat) THEN NumberOrNull(institution.lat)
                 ELSE NumberOrNull(doctor.lat),
         lon |-> IF ~TruthyString(doctor.lon) THEN NumberOrNull(institution.lon)
                 ELSE NumberOrNull(doctor.lon)],
      address |->
        [street |-> IF TruthyString(doctor.address) THEN doctor.address
                    ELSE institution.address,
         city |-> IF TruthyString(doctor.city) THEN doctor.city
                  ELSE institution.city,
         municipality |-> IF TruthyString(doctor.municipality)
                            THEN doctor.municipality ELSE institution.municipality,
         municipalityPart |-> IF TruthyString(doctor.municipalityPart)
                                THEN doctor.municipalityPart
                                ELSE institution.municipalityPart,
         postalCode |-> Head(Split(post)),
         postalName |-> Join(Tail(Split(post)))]]

\* no record merged yet
NoMerged ==
  [id |-> [sha256 |-> ""], fullName |-> "", institution |-> [id |-> ""],
   location |-> [lat |-> "0", lon |-> "0"],
   address |-> [street |-> "", city |-> "", municipality |-> "",
                municipalityPart |-> "", postalCode |-> <<>>, postalName |-> <<>>]]

\* part_008:47-50: doctorsMergedSchema.parse({doctor, institution})
Transform ==
  /\ call.op = "doctorsMergedSchema"
  /\ call.pc = "called"
  /\ call' = [call EXCEPT !.pc = "returned",
                          !.merged = doctorsMergedSchema(call.doctor, call.institution)]
  /\ UNCHANGED <<now, mergedDataCache, doctorsCache, institutionsCache, cacheExpiry,
                 cachedInstitutionsMap, cachedInstitutionsTs, req, started, redisStore>>

Init_transform ==
  /\ now = 0
  /\ mergedDataCache = <<>>
  /\ doctorsCache = <<>>
  /\ institutionsCache = <<>>
  /\ cacheExpiry = <<>>
  /\ cachedInstitutionsMap = NoMap
  /\ cachedInstitutionsTs = null
  /\ req = [r \in Req |-> IdleRequest]
  /\ started = 0
  /\ redisStore = <<>>
  /\ call \in {[op |-> "doctorsMergedSchema", pc |-> "called", doctor |-> d,
                institution |-> i, merged |-> NoMerged] :
                 d \in DoctorInputs, i \in InstitutionInputs}

Next_transform == Transform

Spec_transform == Init_transform /\ [][Next_transform]_vars

\* the value the doctor's field overrides the institution's with
Override(d, i) == IF d # "" THEN d ELSE i

\* the post the doctor's post overrides the institution's with
OverridePost(d, i) == IF d # <<>> THEN d ELSE i

\* C23: each of street, city, municipality, municipalityPart and post of a
\* merged record is the doctor's value when that is non-empty and the
\* institution's otherwise, each field on its own
C23_AddressOverride ==
  (call.op = "doctorsMergedSchema" /\ call.pc = "returned") =>
    LET d == call.doctor
        i == call.institution
        a == call.merged.address
    IN /\ a.street = Override(d.address, i.address)
       /\ a.city = Override(d.city, i.city)
       /\ a.municipality = Override(d.municipality, i.municipality)
       /\ a.municipalityPart = Override(d.municipalityPart, i.municipalityPart)
       /\ \/ a.postalName = <<>> /\ a.postalCode = OverridePost(d.post, i.post)
          \/ a.postalCode \o <<" ">> \o a.postalName = OverridePost(d.post, i.post)

\* a record was merged from a doctor with its own street and post and no city,
\* and an institution that has a street, a city and a post
C23_Witness ==
  /\ call.op = "doctorsMergedSchema"
  /\ call.pc = "returned"
  /\ call.doctor.address = "d"
  /\ call.doctor.city = ""
  /\ call.doctor.post = <<"1", " ", "N", " ", "m">>
  /\ call.institution.address = "i"
  /\ call.institution.city = "i"
  /\ call.institution.post # <<>>
  /\ call.merged.address.city = "i"
  /\ call.merged.address.postalName = <<"N", " ", "m">>

\* C24: the merged location is the doctor's lat and lon when both are present
\* and non-empty, and the institution's lat and lon otherwise, never one of
\* each
C24_LocationResolution ==
  (call.op = "doctorsMergedSchema" /\ call.pc = "returned") =>
    call.merged.location =
      IF TruthyString(call.doctor.lat) /\ TruthyString(call.doctor.lon)
        THEN [lat |-> NumberOrNull(call.doctor.lat),
              lon |-> NumberOrNull(call.doctor.lon)]
        ELSE [lat |-> NumberOrNull(call.institution.lat),
              lon |-> NumberOrNull(call.institution.lon)]

(***************************************************************************)
(* generateDoctorId (unnamed/part_007:4-8) on two doctors.  type and       *)
(* doctor are z.string() and id_inst is z.coerce.string(), so each may     *)
(* hold any text; the model draws them from texts of at most one           *)
(* character, the delimiter among them.                                    *)
(***************************************************************************)
IdTexts == {"", "d", "|"}

IdTriples == [type : IdTexts, id_inst : IdTexts, doctor : IdTexts]

NoId == [sha256 |-> "none"]

\* part_007:99: the transform gives each of two doctors its id
GenerateIds ==
  /\ call.op = "generateDoctorId"
  /\ call.pc = "called"
  /\ call' = [call EXCEPT !.pc = "returned",
                          !.idA = generateDoctorId(call.a),
                          !.idB = generateDoctorId(call.b)]
  /\ UNCHANGED <<now, mergedDataCache, doctorsCache, institutionsCache, cacheExpiry,
                 cachedInstitutionsMap, cachedInstitutionsTs, req, started, redisStore>>

Init_generateDoctorId ==
  /\ now = 0
  /\ mergedDataCache = <<>>
  /\ doctorsCache = <<>>
  /\ institutionsCache = <<>>
  /\ cacheExpiry = <<>>
  /\ cachedInstitutionsMap = NoMap
  /\ cachedInstitutionsTs = null
  /\ req = [r \in Req |-> IdleRequest]
  /\ started = 0
  /\ redisStore = <<>>
  /\ call \in {[op |-> "generateDoctorId", pc |-> "called", a |-> a, b |-> b,
                idA |-> NoId, idB |-> NoId] : a \in IdTriples, b \in IdTriples}

Next_generateDoctorId == GenerateIds

Spec_generateDoctorId == Init_generateDoctorId /\ [][Next_generateDoctorId]_vars

\* C25: two doctors get equal ids exactly when their (type, id_inst, doctor)
\* triples are equal, the digest taken as injective on the string it is given
C25_IdDistinctness ==
  (call.op = "generateDoctorId" /\ call.pc = "returned") =>
    (call.idA = call.idB <=> call.a = call.b)

(***************************************************************************)
(* The file endpoint GET /:fileId, in the version of unnamed/part_012:     *)
(* 86-116 and in the one of routes/v1/dataRoutes.ts:7-24.  Spec_file sends *)
(* one request for a configured or an unknown file id; the file of a       *)
(* configured id holds a content of at most MaxRows records, and the       *)
(* parser returns what parseRawContent makes of it or fails on a premature *)
(* closure of the stream.  A field a body does not carry is "absent".      *)
(***************************************************************************)
dataFiles == {"file1", "file2"}
FileIds == dataFiles \cup {"invalidFile"}
RouteVersions == {"part_012", "dataRoutes"}

NoFileResponse ==
  [status |-> 0, success |-> "absent", message |-> "absent", error |-> "absent",
   data |-> <<>>]

FileCall(version, fileId, content) ==
  [op |-> "getFile", version |-> version, fileId |-> fileId, content |-> content,
   pc |-> "find", parserCalls |-> 0, sent |-> 0,
   result |-> Failure("", NoParse), resp |-> NoFileResponse]

\* part_012:90-96, dataRoutes.ts:8-14: an id that is not configured is
\* answered 404, a configured one goes on to the parser
Find_file ==
  /\ call.op = "getFile"
  /\ call.pc = "find"
  /\ call' =
       IF call.fileId \in dataFiles
         THEN [call EXCEPT !.pc = "parse"]
       ELSE IF call.version = "part_012"
         THEN [call EXCEPT !.pc = "done", !.sent = @ + 1,
                 !.resp = [NoFileResponse EXCEPT !.status = 404,
                                                 !.success = "false",
                                                 !.message = "File not found"]]
         ELSE [call EXCEPT !.pc = "done", !.sent = @ + 1,
                 !.resp = [NoFileResponse EXCEPT !.status = 404,
                                                 !.error = "File not found"]]
  /\ UNCHANGED <<now, mergedDataCache, doctorsCache, institutionsCache, cacheExpiry,
                 cachedInstitutionsMap, cachedInstitutionsTs, req, started, redisStore>>

\* part_012:98-111, dataRoutes.ts:16-23: the parser is awaited and its
\* outcome answered
Parse_file ==
  /\ call.op = "getFile"
  /\ call.pc = "parse"
  /\ \E result \in {parseRawContent(call.content), Failure(PrematureEnd, NoParse)} :
       call' =
         IF result.tag = "err"
           THEN IF call.version = "part_012"
             THEN [call EXCEPT !.pc = "done", !.sent = @ + 1, !.parserCalls = @ + 1,
                     !.result = result,
                     !.resp = [NoFileResponse EXCEPT !.status = 500,
                                                     !.success = "false",
                                                     !.message = "Failed to parse"]]
             ELSE [call EXCEPT !.pc = "done", !.sent = @ + 1, !.parserCalls = @ + 1,
                     !.result = result,
                     !.resp = [NoFileResponse EXCEPT !.status = 500,
                                                     !.error = "Failed to parse file"]]
           ELSE [call EXCEPT !.pc = "done", !.sent = @ + 1, !.parserCalls = @ + 1,
                   !.result = result,
                   !.resp = [NoFileResponse EXCEPT !.status = 200,
                                                   !.success = "true",
                                                   !.data = result.val.data]]
  /\ UNCHANGED <<now, mergedDataCache, doctorsCache, institutionsCache, cacheExpiry,
                 cachedInstitutionsMap, cachedInstitutionsTs, req, started, redisStore>>

Init_file ==
  /\ now = 0
  /\ mergedDataCache = <<>>
  /\ doctorsCache = <<>>
  /\ institutionsCache = <<>>
  /\ cacheExpiry = <<>>
  /\ cachedInstitutionsMap = NoMap
  /\ cachedInstitutionsTs = null
  /\ req = [r \in Req |-> IdleRequest]
  /\ started = 0
  /\ redisStore = <<>>
  /\ call \in {FileCall(version, fileId, content) :
                 version \in RouteVersions, fileId \in FileIds,
                 content \in Contents \ {<<>>}}

Next_file ==
  \/ Find_file
  \/ Parse_file

Spec_file == Init_file /\ [][Next_file]_vars

\* C26: a request to the file endpoint is answered exactly once: 404 with
\* success false and the message File not found for an id that is not
\* configured, without a call of the parser; 500 with success false and the
\* message Failed to parse when the parser fails; 200 with success true and
\* the parsed data otherwise
C26_FileEndpointOutcomes ==
  (call.op = "getFile" /\ call.pc = "done") =>
    /\ call.sent = 1
    /\ call.fileId \notin dataFiles =>
         /\ call.parserCalls = 0
         /\ call.resp.status = 404
         /\ call.resp.success = "false"
         /\ call.resp.message = "File not found"
    /\ (call.fileId \in dataFiles /\ call.result.tag = "err") =>
         /\ call.resp.status = 500
         /\ call.resp.success = "false"
         /\ call.resp.message = "Failed to parse"
    /\ (call.fileId \in dataFiles /\ call.result.tag = "ok") =>
         /\ call.resp.status = 200
         /\ call.resp.success = "true"
         /\ call.resp.data = call.result.val.data

(***************************************************************************)
(* catchError, in the version of unnamed/part_023:39-65 and in the one of  *)
(* utils/catchError.ts:46-67.  A value is a record of its kind, its class  *)
(* (of an Error) and its text; errorsToCatch is undefined or a list of     *)
(* error classes, of which only the members matter.                        *)
(***************************************************************************)
ErrorClasses == {"Error", "SpecificError", "AnotherError"}

\* class SpecificError extends Error, class AnotherError extends Error
Ancestors(class) == {class, "Error"}

PlainValue(text) == [kind |-> "value", class |-> "", text |-> text]
ErrorValue(class, text) == [kind |-> "Error", class |-> class, text |-> text]
UndefinedValue == [kind |-> "undefined", class |-> "", text |-> ""]

\* error instanceof errorType
InstanceOf(value, errorType) ==
  value.kind = "Error" /\ errorType \in Ancestors(value.class)

Resolutions == {PlainValue("Success"), UndefinedValue}
Rejections ==
  {ErrorValue(class, "Test error") : class \in ErrorClasses}
    \cup {PlainValue("String error"), UndefinedValue}

Promises ==
  {[settled |-> "resolved", value |-> v] : v \in Resolutions}
    \cup {[settled |-> "rejected", value |-> v] : v \in Rejections}

ErrorsToCatch ==
  {[given |-> FALSE, types |-> {}]}
    \cup {[given |-> TRUE, types |-> types] : types \in SUBSET ErrorClasses}

CatchErrorVersions == {"part_023", "catchError.ts"}

\* the tuples catchError returns, and what it throws
ReturnValue(value) ==
  [tag |-> "returned", length |-> 2, error |-> UndefinedValue, value |-> value]
ReturnError(error) ==
  [tag |-> "returned", length |-> 1, error |-> error, value |-> UndefinedValue]
Throw(error) ==
  [tag |-> "thrown", length |-> 0, error |-> error, value |-> UndefinedValue]
NoOutcome ==
  [tag |-> "pending", length |-> 0, error |-> UndefinedValue, value |-> UndefinedValue]

\* part_023:39-65
catchError(promise, errorsToCatch) ==
  IF promise.settled = "resolved" THEN ReturnValue(promise.value)
  ELSE IF \/ ~errorsToCatch.given
          \/ errorsToCatch.types = {}
          \/ promise.value.kind # "Error"
    THEN ReturnError(promise.value)
  ELSE IF \E errorType \in errorsToCatch.types : InstanceOf(promise.value, errorType)
    THEN ReturnError(promise.value)
  ELSE Throw(promise.value)

\* utils/catchError.ts:46-67: only a missing errorsToCatch is returned
\* without a look at the types
catchError_ts(promise, errorsToCatch) ==
  IF promise.settled = "resolved" THEN ReturnValue(promise.value)
  ELSE IF ~errorsToCatch.given
    THEN ReturnError(promise.value)
  ELSE IF \E errorType \in errorsToCatch.types : InstanceOf(promise.value, errorType)
    THEN ReturnError(promise.value)
  ELSE Throw(promise.value)

Settle_catchError ==
  /\ call.op = "catchError"
  /\ call.pc = "called"
  /\ call' = [call EXCEPT
                !.pc = "settled",
                !.outcome = IF call.version = "part_023"
                              THEN catchError(call.promise, call.errorsToCatch)
                              ELSE catchError_ts(call.promise, call.errorsToCatch)]
  /\ UNCHANGED <<now, mergedDataCache, doctorsCache, institutionsCache, cacheExpiry,
                 cachedInstitutionsMap, cachedInstitutionsTs, req, started, redisStore>>

Init_catchError ==
  /\ now = 0
  /\ mergedDataCache = <<>>
  /\ doctorsCache = <<>>
  /\ institutionsCache = <<>>
  /\ cacheExpiry = <<>>
  /\ cachedInstitutionsMap = NoMap
  /\ cachedInstitutionsTs = null
  /\ req = [r \in Req |-> IdleRequest]
  /\ started = 0
  /\ redisStore = <<>>
  /\ call \in {[op |-> "catchError", version |-> version, pc |-> "called",
                promise |-> promise, errorsToCatch |-> errorsToCatch,
                outcome |-> NoOutcome] :
                 version \in CatchErrorVersions, promise \in Promises,
                 errorsToCatch \in ErrorsToCatch}

Next_catchError == Settle_catchError

Spec_catchError == Init_catchError /\ [][Next_catchError]_vars

\* the rejection is one that catchError rethrows: the list is not empty, the
\* value is an Error and an instance of none of the listed types
Rethrown(promise, errorsToCatch) ==
  /\ errorsToCatch.given
  /\ errorsToCatch.types # {}
  /\ promise.value.kind = "Error"
  /\ \A errorType \in errorsToCatch.types : ~InstanceOf(promise.value, errorType)

\* C27: catchError returns [undefined, value] for a resolved promise, throws
\* the rejection value exactly when the list of types is not empty, the
\* value is an Error and an instance of none of the types, and returns
\* [error] for every other rejection
C27_CatchErrorOutcome ==
  (call.op = "catchError" /\ call.pc = "settled") =>
    /\ call.promise.settled = "resolved" =>
         call.outcome = ReturnValue(call.promise.value)
    /\ call.promise.settled = "rejected" =>
         call.outcome = IF Rethrown(call.promise, call.errorsToCatch)
                          THEN Throw(call.promise.value)
                          ELSE ReturnError(call.promise.value)

Running(r) == {leg \in {"d", "i"} :
                 (IF leg = "d" THEN req[r].dpc ELSE req[r].ipc) \in {"fetch", "parse"}}

\* C29: when a dataset resolution of a request has failed, the response is an
\* error and is sent only after the other resolution has settled: no
\* resolution is running once the request is answered
C29_JointAwait ==
  \A r \in Req :
    req[r].pc = "done" =>
      /\ Running(r) = {}
      /\ "failed" \in {req[r].dpc, req[r].ipc} => req[r].resp.status = 500

(***************************************************************************)
(* Concurrent writers of the in-process cache.  In Spec_writers two        *)
(* requests are past the await that precedes their setCacheWithTTL         *)
(* (unnamed/part_011:36-51) at the same time, each with a timestamp of its *)
(* own as the key; setCacheWithTTL (unnamed/part_009:9-24) is not async    *)
(* and awaits nothing, so each call is one step.  A request writes the     *)
(* doctors cache and the institutions cache at most MaxWrites times in     *)
(* all; the two caches share cacheExpiry.                                  *)
(***************************************************************************)
Writers == {1, 2}
WriterKeys == {"1", "2", "3"}
WriterCaches == {"doctors", "institutions"}

WritersCall ==
  [op |-> "writers",
   pc |-> [w \in Writers |-> "idle"],
   key |-> [w \in Writers |-> ""],
   cache |-> [w \in Writers |-> "doctors"],
   writes |-> [w \in Writers |-> 0],
   evicted |-> [w \in Writers |-> 0],
   last |-> 0]

\* part_011:36-40: writer w awaits parseRawContent for the dataset of its
\* timestamp
Await_writer(w) ==
  /\ call.op = "writers"
  /\ call.pc[w] = "idle"
  /\ call.writes[w] < MaxWrites
  /\ \E key \in WriterKeys, cache \in WriterCaches :
       call' = [call EXCEPT !.pc[w] = "parsed", !.key[w] = key, !.cache[w] = cache]
  /\ UNCHANGED <<now, mergedDataCache, doctorsCache, institutionsCache, cacheExpiry,
                 cachedInstitutionsMap, cachedInstitutionsTs, req, started, redisStore>>

\* part_011:50-51: the await of writer w has resolved and it calls
\* setCacheWithTTL(cache, timestamp.toString(), data)
Set_writer(w) ==
  /\ call.op = "writers"
  /\ call.pc[w] = "parsed"
  /\ LET old == IF call.cache[w] = "doctors" THEN doctorsCache ELSE institutionsCache
         st == setCacheWithTTL(old, cacheExpiry, call.key[w], ArrayValue(<<>>, now), now)
     IN /\ cacheExpiry' = st.expiry
        /\ IF call.cache[w] = "doctors"
             THEN doctorsCache' = st.cache /\ UNCHANGED institutionsCache
             ELSE institutionsCache' = st.cache /\ UNCHANGED doctorsCache
        /\ call' = [call EXCEPT !.pc[w] = "idle",
                                !.writes[w] = @ + 1,
                                !.evicted[w] = @ + Cardinality(Evicted(old, st.cache)),
                                !.last = w]
  /\ UNCHANGED <<now, mergedDataCache, cachedInstitutionsMap, cachedInstitutionsTs,
                 req, started, redisStore>>

Init_writers ==
  /\ now = 0
  /\ call = WritersCall
  /\ mergedDataCache = <<>>
  /\ doctorsCache = <<>>
  /\ institutionsCache = <<>>
  /\ cacheExpiry = <<>>
  /\ cachedInstitutionsMap = NoMap
  /\ cachedInstitutionsTs = null
  /\ req = [r \in Req |-> IdleRequest]
  /\ started = 0
  /\ redisStore = <<>>

Next_writers ==
  \/ \E w \in Writers : Await_writer(w)
  \/ \E w \in Writers : Set_writer(w)

Spec_writers == Init_writers /\ [][Next_writers]_vars

\* C30: however the steps of two concurrent requests interleave, no cache
\* exceeds MAX_CACHE_SIZE after a step, a step evicts at most one entry of a
\* cache, and a setCacheWithTTL leaves its key in the cache with an expiry
\* record
C30_AtomicInsertAndEvict ==
  [][/\ Len(doctorsCache') <= MAX_CACHE_SIZE
     /\ Len(institutionsCache') <= MAX_CACHE_SIZE
     /\ Cardinality(Evicted(doctorsCache, doctorsCache')) <= 1
     /\ Cardinality(Evicted(institutionsCache, institutionsCache')) <= 1
     /\ \A w \in Writers :
          (call.pc[w] = "parsed" /\ call'.pc[w] = "idle") =>
            /\ call.key[w] \in Keys(IF call.cache[w] = "doctors"
                                      THEN doctorsCache' ELSE institutionsCache')
            /\ call.key[w] \in DOMAIN cacheExpiry']_vars

\* both requests were past their await at the same time, and the one that
\* called setCacheWithTTL last wrote a full cache and evicted an entry while
\* the other was still to write
C30_Witness ==
  /\ call.op = "writers"
  /\ \E w \in Writers :
       /\ call.last = w
       /\ call.evicted[w] > 0
       /\ \E v \in Writers \ {w} : call.pc[v] = "parsed" /\ call.cache[v] = call.cache[w]
       /\ Len(IF call.cache[w] = "doctors" THEN doctorsCache ELSE institutionsCache)
            = MAX_CACHE_SIZE

\* C31: the records a merge of part_008 returns are a function of the doctors
\* and institutions passed in alone, whatever map is kept from earlier calls
\* and whatever institutionsTs is, and the merge reads and writes no cache
C31_MergeIsPure ==
  [][(call'.op = "merge" /\ call'.version \in {"memory", "redis"}) =>
       /\ call'.result =
            Success(mergeDoctorsAndInstitutions_async(call'.doctors,
                                                      Snapshot(call'.institutions)))
       /\ UNCHANGED <<cachedInstitutionsMap, cachedInstitutionsTs, redisStore>>]_vars

(***************************************************************************)
(* The expiry records of the three caches (Spec_throwing).                 *)
(***************************************************************************)
\* every entry of the cache has an expiry record of its own insertion time + TTL
OwnExpiry(cache) ==
  \A k \in 1..Len(cache) :
    /\ cache[k].key \in DOMAIN cacheExpiry
    /\ cacheExpiry[cache[k].key] = cache[k].value.storedAt + CACHE_TTL_MS

\* C32: every key of the merged, the doctors and the institutions cache has
\* an expiry record, and it is the entry's own insertion time + TTL whatever
\* was set, expired or evicted under the same key string in another cache
C32_IndependentExpiry ==
  /\ OwnExpiry(mergedDataCache)
  /\ OwnExpiry(doctorsCache)
  /\ OwnExpiry(institutionsCache)

(***************************************************************************)
(* Spec_upstream: one dataset of the upstream is republished while         *)
(* requests fetch its timestamp and then its text (part_013:36-39 and      *)
(* fetchHelpers.ts:55-100).  The upstream holds one publication at a time; *)
(* publication v has the timestamp v and a text of its own.                *)
(***************************************************************************)
MaxVersions == 3
MaxRuns == 3

\* the number the route reads from the timestamp file of publication v
PublishedTs(v) ==
  CASE v = 1 -> "1"
    [] v = 2 -> "2"
    [] OTHER -> "3"

\* the CSV text of publication v
Publication(v) ==
  CASE v = 1 -> <<Header, Row(2, TRUE, "a")>>
    [] v = 2 -> <<Header, Row(2, TRUE, "b")>>
    [] OTHER -> <<Header, Row(2, TRUE, "a"), Row(2, TRUE, "b")>>

UpstreamCall ==
  [op |-> "upstream", version |-> 1, pc |-> "idle", ts |-> null, atTs |-> 0,
   rawContent |-> <<>>, runs |-> 0]

\* the upstream replaces its publication by the next one
Republish ==
  /\ call.op = "upstream"
  /\ call.version < MaxVersions
  /\ call' = [call EXCEPT !.version = @ + 1]
  /\ UNCHANGED <<now, mergedDataCache, doctorsCache, institutionsCache, cacheExpiry,
                 cachedInstitutionsMap, cachedInstitutionsTs, req, started, redisStore>>

\* part_013:36-39: the route awaits fetchTimestamps(); fetchHelpers.ts:61-65:
\* fetchAndParseWithCache looks the timestamp up in the dataset's cache
Timestamps_upstream ==
  /\ call.op = "upstream"
  /\ call.pc = "idle"
  /\ call.runs < MaxRuns
  /\ LET ts == PublishedTs(call.version)
         got == getCacheWithTTL(doctorsCache, cacheExpiry, ts, now)
     IN /\ doctorsCache' = got.cache
        /\ cacheExpiry' = got.expiry
        /\ call' = [call EXCEPT !.pc = IF got.result = undefined THEN "fetch" ELSE "idle",
                                !.ts = ts,
                                !.atTs = call.version,
                                !.runs = @ + 1]
  /\ UNCHANGED <<now, mergedDataCache, institutionsCache,
                 cachedInstitutionsMap, cachedInstitutionsTs, req, started, redisStore>>

\* fetchHelpers.ts:67-80: fetchTextFile(url) resolves with the text the
\* upstream holds now
Fetch_upstream ==
  /\ call.op = "upstream"
  /\ call.pc = "fetch"
  /\ call' = [call EXCEPT !.pc = "parse", !.rawContent = Publication(call.version)]
  /\ UNCHANGED <<now, mergedDataCache, doctorsCache, institutionsCache, cacheExpiry,
                 cachedInstitutionsMap, cachedInstitutionsTs, req, started, redisStore>>

\* fetchHelpers.ts:82-99: parseRawContent, then setCacheWithTTL under the
\* timestamp of the request
Parse_upstream ==
  /\ call.op = "upstream"
  /\ call.pc = "parse"
  /\ LET parsed == parseRawContent(call.rawContent)
         st == setCacheWithTTL(doctorsCache, cacheExpiry, call.ts,
                               ArrayValue(parsed.val.data, now), now)
     IN IF parsed.tag = "ok"
          THEN doctorsCache' = st.cache /\ cacheExpiry' = st.expiry
          ELSE UNCHANGED <<doctorsCache, cacheExpiry>>
  /\ call' = [call EXCEPT !.pc = "idle"]
  /\ UNCHANGED <<now, mergedDataCache, institutionsCache,
                 cachedInstitutionsMap, cachedInstitutionsTs, req, started, redisStore>>

Init_upstream ==
  /\ now = 0
  /\ call = UpstreamCall
  /\ mergedDataCache = <<>>
  /\ doctorsCache = <<>>
  /\ institutionsCache = <<>>
  /\ cacheExpiry = <<>>
  /\ cachedInstitutionsMap = NoMap
  /\ cachedInstitutionsTs = null
  /\ req = [r \in Req |-> IdleRequest]
  /\ started = 0
  /\ redisStore = <<>>

Next_upstream ==
  \/ Republish
  \/ Timestamps_upstream
  \/ Fetch_upstream
  \/ Parse_upstream

Spec_upstream == Init_upstream /\ [][Next_upstream]_vars

\* C33: a dataset stored in the cache under the timestamp T holds the valid
\* rows of the text the upstream published with the timestamp T, also when
\* the upstream republishes between a request's timestamp fetch and its
\* dataset fetch
C33_CacheMatchesVersionKey ==
  \A k \in 1..Len(doctorsCache) : \A v \in 1..MaxVersions :
    doctorsCache[k].key = PublishedTs(v) =>
      doctorsCache[k].value.data = ValidRows(Tail(Publication(v)))

\* the pairs of numbers fetchTimestamps can resolve with
TimestampPairs ==
  [doctorsTs : {"1", "2", "NaN"}, institutionsTs : {"1", "2", "NaN"}]

\* C34: every merged result the route stored under a key has the
\* meta.timestamps the key is derived from, and two different pairs of
\* timestamps never derive the same key, so that a response served from the
\* cache carries the timestamps its request fetched
C34_KeyTimestampConsistency ==
  /\ \A k \in DOMAIN redisStore : \A ts \in TimestampPairs :
       (/\ k = mergedDataCacheKey(ts)
        /\ ~redisStore[k].foreign
        /\ redisStore[k].text.json) =>
         redisStore[k].text.value.meta.timestamps = ts
  /\ \A p, q \in TimestampPairs :
       mergedDataCacheKey(p) = mergedDataCacheKey(q) => p = q

\* C35: a request served from the cached merged result, by the route or by
\* the search route's fetchOrUseCache, leaves every entry of the store as it
\* was, its text and its time of expiry included; the cacheHit flag is set
\* on the response only
C35_HitLeavesCacheUnchanged ==
  [][(\/ \E r \in Req : req[r].pc = "mGet" /\ req'[r].pc = "done"
                        /\ req'[r].outcome = "hit"
      \/ call' # call /\ call'.op = "search" /\ call'.outcome = "hit") =>
       /\ redisStore' = redisStore
       /\ \A r \in Req : (req[r].pc = "mGet" /\ req'[r].outcome = "hit") =>
            req'[r].resp.cacheHit = "true"]_vars

\* the route has served a request from the cache, and so has fetchOrUseCache,
\* and the entry they served is in the store
C35_Witness ==
  /\ call.op = "search"
  /\ call.outcome = "hit"
  /\ \E r \in Req : /\ req[r].outcome = "hit"
                    /\ req[r].resp.cacheHit = "true"
                    /\ req[r].cacheKey \in DOMAIN redisStore

\* every entry of the cache after the step was in it before, with the same value
NothingWritten(before, after) ==
  \A k \in Keys(after) : k \in Keys(before) /\ MapGet(after, k) = MapGet(before, k)

\* the step from the parse of a dataset: on success the cache has, under the
\* timestamp, the valid rows of the text, which are also the rows returned,
\* and no other entry is new; on failure the cache is as it was
WrittenOnSuccess(rawContent, key, before, after, returned) ==
  IF parseRawContent(rawContent).tag = "ok"
    THEN /\ key \in Keys(after)
         /\ MapGet(after, key).data = ValidRows(Tail(rawContent))
         /\ returned = Success(ValidRows(Tail(rawContent)))
         /\ NothingWritten(before, MapDelete(after, key))
    ELSE /\ after = before
         /\ returned.tag = "err"

AbsentParam == "[absent]"
ArrayParam == "[array]"
TypeParams == {AbsentParam, ArrayParam, "", "gp", "den", "gyn"}
QParams == {AbsentParam, ArrayParam, "", "a", "b"}
SearchQueries == [type : TypeParams, q : QParams]

\* searchQuerySchema.parse(query): type a nonempty string, q a string with
\* the default ''; a ZodError otherwise, whose issues are all on fields, so
\* that flatten().formErrors is empty
searchQuerySchema(query) ==
  IF query.type \in {AbsentParam, ArrayParam, ""} \/ query.q = ArrayParam
    THEN Failure(ZodError, query)
    ELSE Success([type |-> query.type,
                  q |-> IF query.q = AbsentParam THEN "" ELSE query.q])

\* next() and next(err)
NextCall(err) == [error |-> err.kind = "Error", message |-> err.text]

ValidateSearchCall(query) ==
  [op |-> "validateSearch", pc |-> "try", input |-> query, query |-> query,
   err |-> UndefinedValue, nextCalls |-> <<>>]

\* index.ts:135-137: the try block
Try_validateSearch ==
  /\ call.op = "validateSearch"
  /\ call.pc = "try"
  /\ LET parsed == searchQuerySchema(call.query)
     IN IF parsed.tag = "ok"
          THEN call' = [call EXCEPT !.pc = "done", !.query = parsed.val,
                                    !.nextCalls = Append(@, NextCall(UndefinedValue))]
          ELSE call' = [call EXCEPT !.pc = "zod", !.err = ErrorValue(ZodError, "")]
  /\ UNCHANGED <<now, mergedDataCache, doctorsCache, institutionsCache, cacheExpiry,
                 cachedInstitutionsMap, cachedInstitutionsTs, req, started, redisStore>>

\* index.ts:139-141: if (err instanceof z.ZodError) next(new Error(formErrors))
CatchZod_validateSearch ==
  /\ call.op = "validateSearch"
  /\ call.pc = "zod"
  /\ call' = [call EXCEPT !.pc = "error",
                !.nextCalls = IF InstanceOf(call.err, ZodError)
                                THEN Append(@, NextCall(ErrorValue("Error", "")))
                                ELSE @]
  /\ UNCHANGED <<now, mergedDataCache, doctorsCache, institutionsCache, cacheExpiry,
                 cachedInstitutionsMap, cachedInstitutionsTs, req, started, redisStore>>

\* index.ts:142-144: if (err instanceof Error) next(err)
CatchError_validateSearch ==
  /\ call.op = "validateSearch"
  /\ call.pc = "error"
  /\ call' = [call EXCEPT !.pc = "last",
                !.nextCalls = IF InstanceOf(call.err, "Error")
                                THEN Append(@, NextCall(call.err))
                                ELSE @]
  /\ UNCHANGED <<now, mergedDataCache, doctorsCache, institutionsCache, cacheExpiry,
                 cachedInstitutionsMap, cachedInstitutionsTs, req, started, redisStore>>

\* index.ts:145: next(new Error('Failed to validate search query', {cause: err}))
CatchLast_validateSearch ==
  /\ call.op = "validateSearch"
  /\ call.pc = "last"
  /\ call' = [call EXCEPT !.pc = "done",
                !.nextCalls = Append(@, NextCall(ErrorValue("Error",
                                          "Failed to validate search query")))]
  /\ UNCHANGED <<now, mergedDataCache, doctorsCache, institutionsCache, cacheExpiry,
                 cachedInstitutionsMap, cachedInstitutionsTs, req, started, redisStore>>

Init_validateSearch ==
  /\ now = 0
  /\ call \in {ValidateSearchCall(query) : query \in SearchQueries}
  /\ mergedDataCache = <<>>
  /\ doctorsCache = <<>>
  /\ institutionsCache = <<>>
  /\ cacheExpiry = <<>>
  /\ cachedInstitutionsMap = NoMap
  /\ cachedInstitutionsTs = null
  /\ req = [r \in Req |-> IdleRequest]
  /\ started = 0
  /\ redisStore = <<>>

Next_validateSearch ==
  \/ Try_validateSearch
  \/ CatchZod_validateSearch
  \/ CatchError_validateSearch
  \/ CatchLast_validateSearch

Spec_validateSearch == Init_validateSearch /\ [][Next_validateSearch]_vars

\* C39: validateSearch never calls next more than once, and when it has
\* returned it has called next once: without an error for a valid query,
\* with an error for an invalid one
C39_NextExactlyOnce ==
  call.op = "validateSearch" =>
    /\ Len(call.nextCalls) <= 1
    /\ call.pc = "done" =>
         /\ Len(call.nextCalls) = 1
         /\ call.nextCalls[1].error = (searchQuerySchema(call.input).tag = "err")

====
